---- MODULE Spec2Model ----
(***************************************************************************)
(* A model of the pattern-reco backtesting core: the execution simulator   *)
(* (src/core/backtest.py), the gap-z feature engine (src/features.py,      *)
(* src/core/features.py), the detector fit (src/core/detectors.py,         *)
(* src/detector.py), position admission (src/pipeline.py), the portfolio   *)
(* day loop (src/metrics.py) and the walk-forward splitter                 *)
(* (src/walk_forward.py).                                                  *)
(*                                                                         *)
(* Conventions.  Series are TLA+ sequences, so bar i of the code (0-based) *)
(* is element i+1 here; a date is the position of its bar.  Prices are     *)
(* positive integers.  Derived quantities (gaps, returns, z-scores) are    *)
(* exact rationals [n, d]; the one place where the code's IEEE-754 double  *)
(* arithmetic differs from the exact value on integer prices, the circuit  *)
(* breaker's  open / close - 1,  is modelled to the last bit.              *)
(***************************************************************************)
EXTENDS Integers, Sequences, FiniteSets

VARIABLES
    pc,               \* position of the running call
    data,             \* price DataFrame: [Open, Close], two series of equal length
    signals,          \* boolean entry-signal series, as long as data
    config,           \* run_backtest's config dictionary
    trades,           \* run_backtest: the list of filled trades
    unfilled_trades,  \* run_backtest: the list of rejected entries
    returned,         \* run_backtest: the value returned (none before the return)
    signal_rows,      \* _select_positions: the rows of the signals DataFrame
    all_data,         \* _select_positions: symbol -> its historical data
    portfolio_cfg,    \* _select_positions: the portfolio section of the config
    open_positions,   \* _select_positions: symbols of the open positions
    new_positions,    \* _select_positions: the list of Positions returned
    position_book,    \* day loop: the open Positions, in order of admission
    today,            \* day loop: the current trading date
    mtrades,          \* aggregate_portfolio_returns: trades (sorted once the call starts)
    initial_capital,  \* aggregate_portfolio_returns: starting capital
    position_size,    \* aggregate_portfolio_returns: capital allocated to each trade
    daily_prices,     \* aggregate_portfolio_returns: symbol -> close by date (0: no price)
    cash,             \* aggregate_portfolio_returns: uninvested capital
    active_trades,    \* aggregate_portfolio_returns: the trades currently held
    trade_idx,        \* aggregate_portfolio_returns: next trade of mtrades to consider
    dt,               \* aggregate_portfolio_returns: the date of the loop
    portfolio_value,  \* aggregate_portfolio_returns: the equity curve so far
    df_input,         \* add_gap_z_signal: the price DataFrame [Open, Close]
    window,           \* add_gap_z_signal: the rolling window
    k_low,            \* add_gap_z_signal: the z-score threshold
    df_featured,      \* add_gap_z_signal: the DataFrame returned
    params_grid,      \* fit_gap_z_detector: the grid, its keys in the order supplied
    min_hit_rate,     \* fit_gap_z_detector: the hit-rate threshold
    param_combinations, \* fit_gap_z_detector: list(product(*params_grid.values()))
    next_combo,       \* fit_gap_z_detector: position of the loop in param_combinations
    best_score,       \* fit_gap_z_detector: best median return so far
    best_params,      \* fit_gap_z_detector: <<>> for None, <<params>> otherwise
    trade_ledger,     \* fit_gap_z_detector: the ledger of the last combination tried
    det_grid,         \* GapZDetector: self.params_grid
    best_params_,     \* GapZDetector: self.best_params_ (<<>> for {})
    params_file,      \* the parameter file of save and load (<<>>: no file)
    last_call,        \* GapZDetector: the last call, its data and its outcome
    history,          \* GapZDetector: whether fit ran, a fit selected parameters, load ran
    start_date,       \* create_walk_forward_splits: first date of the period
    end_date,         \* create_walk_forward_splits: last date of the period
    wf_config,        \* create_walk_forward_splits: the WalkForwardConfig
    train_end_date,   \* create_walk_forward_splits: end_date less the holdout
    wf_current_date,  \* create_walk_forward_splits: current_date, the cursor of the loop
    splits,           \* create_walk_forward_splits: the list of WalkForwardSplits
    uni_config,       \* select_universe: the universe section of the config
    t0,               \* select_universe: the freeze date (<<>> for None)
    available_symbols, \* select_universe: the symbols to consider, in the order supplied
    snapshots,        \* select_universe: symbol -> frame, as returned by load_snapshots
    candidate_symbols, \* select_universe: available symbols less the exclusions
    next_candidate,   \* select_universe: position of the loop in candidate_symbols
    symbol_stats,     \* select_universe: qualified symbols with statistics, as inserted
    detailed_exclusions, \* select_universe: rejected symbols and their reasons
    processing_stats, \* select_universe: the counters of the run
    universe_out,     \* select_universe: what the call returned or raised
    raw_config,       \* load_config: the parsed YAML (<<>> when it is not a mapping)
    loaded_config,    \* load_config: the Config returned (<<>> before the return)
    run_log           \* run: the steps of the pipeline taken so far, with their parameters

backtestVars == <<data, signals, config, trades, unfilled_trades, returned>>
selectVars == <<signal_rows, all_data, portfolio_cfg, open_positions, new_positions>>
dayVars == <<position_book, today>>
metricsVars == <<mtrades, initial_capital, position_size, daily_prices, cash,
                 active_trades, trade_idx, dt, portfolio_value>>
featureVars == <<df_input, window, k_low, df_featured>>
fitVars == <<params_grid, min_hit_rate, param_combinations, next_combo, best_score,
             best_params, trade_ledger>>
detectorVars == <<det_grid, best_params_, params_file, last_call, history>>
walkForwardVars == <<start_date, end_date, wf_config, train_end_date, wf_current_date,
                    splits>>
universeVars == <<uni_config, t0, available_symbols, snapshots, candidate_symbols,
                  next_candidate, symbol_stats, detailed_exclusions, processing_stats,
                  universe_out>>
configVars == <<raw_config, loaded_config, run_log>>
vars == <<pc, backtestVars, selectVars, dayVars, metricsVars, featureVars, fitVars,
         detectorVars,
         walkForwardVars,
         universeVars,
         configVars>>

\* The value of the variables of a component that is not running.
Idle == "idle"
BacktestIdle ==
    /\ data = Idle /\ signals = Idle /\ config = Idle
    /\ trades = Idle /\ unfilled_trades = Idle /\ returned = Idle
SelectIdle ==
    /\ signal_rows = Idle /\ all_data = Idle /\ portfolio_cfg = Idle
    /\ open_positions = Idle /\ new_positions = Idle
DayIdle == position_book = Idle /\ today = Idle
MetricsIdle ==
    /\ mtrades = Idle /\ initial_capital = Idle /\ position_size = Idle
    /\ daily_prices = Idle /\ cash = Idle /\ active_trades = Idle
    /\ trade_idx = Idle /\ dt = Idle /\ portfolio_value = Idle
FeaturesIdle == df_input = Idle /\ window = Idle /\ k_low = Idle /\ df_featured = Idle
FitIdle ==
    /\ params_grid = Idle /\ min_hit_rate = Idle /\ param_combinations = Idle
    /\ next_combo = Idle /\ best_score = Idle /\ best_params = Idle
    /\ trade_ledger = Idle
DetectorIdle ==
    /\ det_grid = Idle /\ best_params_ = Idle /\ params_file = Idle
    /\ last_call = Idle /\ history = Idle
WalkForwardIdle ==
    /\ start_date = Idle /\ end_date = Idle /\ wf_config = Idle
    /\ train_end_date = Idle /\ wf_current_date = Idle /\ splits = Idle
UniverseIdle ==
    /\ uni_config = Idle /\ t0 = Idle /\ available_symbols = Idle
    /\ snapshots = Idle /\ candidate_symbols = Idle /\ next_candidate = Idle
    /\ symbol_stats = Idle /\ detailed_exclusions = Idle
    /\ processing_stats = Idle /\ universe_out = Idle
ConfigIdle == raw_config = Idle /\ loaded_config = Idle /\ run_log = Idle

-----------------------------------------------------------------------------
(* Bounds of the model.                                                    *)

\* Number of bars of a price series.
NumBars == 4
\* Largest holding period drawn for run_backtest.
MaxHoldDays == 2
\* Largest number of rows of a signals DataFrame.
MaxRows == 3
\* Largest max_concurrent drawn for _select_positions.
MaxConcurrent == 3
\* Number of trading dates of the day loop.
MaxDays == 2
\* Largest number of trades handed to aggregate_portfolio_returns.
MaxTrades == 2
\* Number of dates of the equity curve (start_date is date 1).
NumDates == 3
\* Number of bars of a frame handed to add_gap_z_signal.
NumFeatureBars == 5
\* Largest rolling window drawn for add_gap_z_signal.
MaxWindow == 3
\* Number of bars of a frame handed to fit_gap_z_detector.
NumFitBars == 6
\* Number of bars of a frame handed to GapZDetector.fit and predict.
NumDetectorBars == 5
\* Number of bars of a frame handed to run_backtest around the slippage tiers.
NumTierBars == 4
\* Largest number of years between the start and the end of a walk-forward
\* period.
MaxSpanYears == 23

-----------------------------------------------------------------------------
(* Exact rational arithmetic: the real-number value of the code's float    *)
(* expressions.                                                            *)

Abs(x) == IF x < 0 THEN -x ELSE x

RECURSIVE Gcd(_, _)
Gcd(a, b) == IF b = 0 THEN a ELSE Gcd(b, a % b)

\* The rational num/den in lowest terms with a positive denominator.
Rat(num, den) ==
    LET s == IF den < 0 THEN -1 ELSE 1
        g == Gcd(Abs(num), Abs(den))
    IN  [n |-> (s * num) \div g, d |-> (s * den) \div g]

RInt(i) == [n |-> i, d |-> 1]
RAdd(x, y) ==
    LET g == Gcd(x.d, y.d)
    IN  Rat(x.n * (y.d \div g) + y.n * (x.d \div g), (x.d \div g) * y.d)
RNeg(x) == [n |-> -x.n, d |-> x.d]
RSub(x, y) == RAdd(x, RNeg(y))
RMul(x, y) == Rat(x.n * y.n, x.d * y.d)
RDiv(x, y) == Rat(x.n * y.d, x.d * y.n)
RAbs(x) == [n |-> Abs(x.n), d |-> x.d]
RLess(x, y) == x.n * y.d < y.n * x.d
RLeq(x, y) == x.n * y.d <= y.n * x.d

\* Series.median(): the middle value of the sorted values, the mean of the
\* two middle values when their number is even.  Not applied to an empty
\* series here.
RECURSIVE RInsert(_, _)
RInsert(sorted, x) ==
    IF sorted = <<>> THEN <<x>>
    ELSE IF RLess(x, Head(sorted)) THEN <<x>> \o sorted
    ELSE <<Head(sorted)>> \o RInsert(Tail(sorted), x)

RECURSIVE RSort(_)
RSort(xs) == IF xs = <<>> THEN <<>> ELSE RInsert(RSort(Tail(xs)), Head(xs))

Median(xs) ==
    LET sorted == RSort(xs)
        len    == Len(xs)
        mid    == (len + 1) \div 2
    IN  IF len % 2 = 1 THEN sorted[mid]
        ELSE RMul(RAdd(sorted[mid], sorted[mid + 1]), [n |-> 1, d |-> 2])

\* dict.get(key, default)
Get(dict, key, default) == IF key \in DOMAIN dict THEN dict[key] ELSE default

-----------------------------------------------------------------------------
(* IEEE-754 binary64 rounding of a quotient of small integers.             *)

\* Bits of a double's significand after the leading one.
MantissaBits == 52

\* 2^k mod m
RECURSIVE PowMod2(_, _)
PowMod2(k, m) == IF k = 0 THEN 1 % m ELSE (2 * PowMod2(k - 1, m)) % m

RECURSIVE Pow2(_)
Pow2(k) == IF k = 0 THEN 1 ELSE 2 * Pow2(k - 1)

\* The e >= 0 with 1 <= (n/d) * 2^e < 2, for 0 < n/d < 2.
RECURSIVE BinExp(_, _)
BinExp(n, d) == IF n >= d THEN 0 ELSE 1 + BinExp(2 * n, d)

\* s with  roundHalfEven(n * 2^k / d) - n * 2^k / d = s / d :  the rounding
\* error of the double nearest to n/d, in units of 2^-k / d.
RoundErr(n, d, k) ==
    LET r  == ((n % d) * PowMod2(k, d)) % d
        r2 == ((n % (2 * d)) * PowMod2(k, 2 * d)) % (2 * d)
    IN  IF 2 * r < d THEN -r
        ELSE IF 2 * r > d THEN d - r
        ELSE IF r2 < d THEN -r ELSE d - r

-----------------------------------------------------------------------------
(* src/core/backtest.py                                                    *)

\* Defaults of the config lookups and of the slippage table.
DefaultMaxHoldDays == 22
DefaultFeesBps == 10
DefaultGap2Pct == 5
DefaultGap5Pct == 10
DefaultGapHigh == 20
BpsPerUnit == 10000
DefaultCircuitGuardPct == [n |-> 1, d |-> 10]
Tier2Pct == [n |-> 2, d |-> 100]
Tier5Pct == [n |-> 5, d |-> 100]

\* Mutation of CalculateSlippageBps: the boundaries belong to the lower tier.
CalculateSlippageBpsInclusive(gap_pct, slippage_model) ==
    LET gap_abs == RAbs(gap_pct)
    IN  IF RLeq(gap_abs, Tier2Pct) THEN Get(slippage_model, "gap_2pct", DefaultGap2Pct)
        ELSE IF RLeq(gap_abs, Tier5Pct) THEN Get(slippage_model, "gap_5pct", DefaultGap5Pct)
        ELSE Get(slippage_model, "gap_high", DefaultGapHigh)

\* _calculate_slippage_bps(gap_pct, slippage_model)
CalculateSlippageBps(gap_pct, slippage_model) ==
    LET gap_abs == RAbs(gap_pct)
    IN  IF RLess(gap_abs, Tier2Pct) THEN Get(slippage_model, "gap_2pct", DefaultGap2Pct)
        ELSE IF RLess(gap_abs, Tier5Pct) THEN Get(slippage_model, "gap_5pct", DefaultGap5Pct)
        ELSE Get(slippage_model, "gap_high", DefaultGapHigh)

\* abs(entry_price / prev_close - 1) > circuit_guard_pct, in binary64, for
\* 0 < circuit_guard_pct < 1/2 and prev_close / 2 < entry_price < 2 * prev_close
\* (outside that range the exact comparison decides).  Whenever the exact
\* values differ they differ by far more than a rounding error and the exact
\* comparison is the double one.  When they are equal, the quotient is rounded
\* to a double (error d1), the subtraction of 1 is exact, and the guard is the
\* double nearest to its decimal (error d2): the entry trips iff d1 > d2 for an
\* up-gap, -d1 > d2 for a down-gap.
CircuitBreakerTrips(entry_price, prev_close, guard) ==
    LET lhs == Abs(entry_price - prev_close) * guard.d
        rhs == guard.n * prev_close
        k1  == MantissaBits + BinExp(entry_price, prev_close)
        kg  == MantissaBits + BinExp(guard.n, guard.d)
        s1  == RoundErr(entry_price, prev_close, k1)
        s2  == RoundErr(guard.n, guard.d, kg)
        sh  == Pow2(kg - k1)
    IN  IF lhs # rhs THEN lhs > rhs
        ELSE IF entry_price = prev_close THEN FALSE
        ELSE IF entry_price > prev_close
             THEN s1 * guard.d * sh > s2 * prev_close
             ELSE (-s1) * guard.d * sh > s2 * prev_close

\* gap_pct = (entry_price - prev_close) / prev_close
GapPct(entry_price, prev_close) == Rat(entry_price - prev_close, prev_close)

\* entry_price * (1 + slippage_bps / 10000.0)
EntryPriceAdj(entry_price, slippage_bps) ==
    Rat(entry_price * (BpsPerUnit + slippage_bps), BpsPerUnit)

\* (exit_price - entry_price_adj) / entry_price_adj
ReturnPct(exit_price, entry_price_adj) ==
    RDiv(RSub(RInt(exit_price), entry_price_adj), entry_price_adj)

\* np.where(signals)[0]: the positions of the true signals, ascending.
RECURSIVE SignalIndicesFrom(_, _)
SignalIndicesFrom(sig, i) ==
    IF i > Len(sig) THEN <<>>
    ELSE (IF sig[i] THEN <<i>> ELSE <<>>) \o SignalIndicesFrom(sig, i + 1)

\* Mutation of SignalIndices: the positions in descending order.
RECURSIVE SignalIndicesDownFrom(_, _)
SignalIndicesDownFrom(sig, i) ==
    IF i < 1 THEN <<>>
    ELSE (IF sig[i] THEN <<i>> ELSE <<>>) \o SignalIndicesDownFrom(sig, i - 1)

SignalIndicesDescending(sig) == SignalIndicesDownFrom(sig, Len(sig))

SignalIndices(sig) == SignalIndicesFrom(sig, 1)

\* price * (fees_bps / 10000.0): entry_fee and exit_fee.
Fee(price, fees_bps) == RMul(price, Rat(fees_bps, BpsPerUnit))

\* Mutation of TradeRecord: return_pct is net of the entry and exit fees.
TradeRecordNetOfFees(entry_date, exit_date, max_hold, entry_price, entry_price_adj, exit_price, fees_bps, slippage_bps) ==
    LET entry_fee == Fee(entry_price_adj, fees_bps)
        exit_fee  == Fee(RInt(exit_price), fees_bps)
        cost      == RAdd(entry_price_adj, entry_fee)
        proceeds  == RSub(RInt(exit_price), exit_fee)
    IN  [entry_date      |-> entry_date,
         exit_date       |-> exit_date,
         hold_days       |-> max_hold,
         entry_price     |-> entry_price,
         entry_price_adj |-> entry_price_adj,
         exit_price      |-> exit_price,
         return_pct      |-> RSub(RDiv(proceeds, cost), RInt(1)),
         fees_bps        |-> fees_bps,
         slippage_bps    |-> slippage_bps]

\* The trade dict of run_backtest.  entry_fee and exit_fee are computed
\* before it and used nowhere: they are in no field of the trade.
TradeRecord(entry_date, exit_date, max_hold, entry_price, entry_price_adj, exit_price, fees_bps, slippage_bps) ==
    [entry_date      |-> entry_date,
     exit_date       |-> exit_date,
     hold_days       |-> max_hold,
     entry_price     |-> entry_price,
     entry_price_adj |-> entry_price_adj,
     exit_price      |-> exit_price,
     return_pct      |-> ReturnPct(exit_price, entry_price_adj),
     fees_bps        |-> fees_bps,
     slippage_bps    |-> slippage_bps]

\* run_backtest's loop body for the signal at bar signal_idx once the exit
\* bar is known to exist: the breaker rejects the entry, or the trade is
\* recorded.  acc = [trades, unfilled] are the two lists.
BacktestFill(df, cfg, signal_idx, acc) ==
    LET exec_config       == Get(cfg, "execution", <<>>)
        portfolio_config  == Get(cfg, "portfolio", <<>>)
        max_hold          == Get(portfolio_config, "max_hold_days", DefaultMaxHoldDays)
        fees_bps          == Get(exec_config, "fees_bps", DefaultFeesBps)
        circuit_guard_pct == Get(exec_config, "circuit_guard_pct", DefaultCircuitGuardPct)
        slippage_model    == Get(exec_config, "slippage_model", <<>>)
        entry_idx         == signal_idx + 1
        exit_idx          == entry_idx + max_hold
        entry_date        == entry_idx
        prev_close        == df.Close[signal_idx]
        entry_price       == df.Open[entry_idx]
    IN  IF CircuitBreakerTrips(entry_price, prev_close, circuit_guard_pct)
        THEN [acc EXCEPT !.unfilled =
                Append(@, [date |-> entry_date, reason |-> "circuit_breaker"])]
        ELSE
        LET gap_pct         == GapPct(entry_price, prev_close)
            slippage_bps    == CalculateSlippageBps(gap_pct, slippage_model)
            entry_price_adj == EntryPriceAdj(entry_price, slippage_bps)
            exit_price      == df.Close[exit_idx]
            trade == TradeRecord(entry_date, exit_idx, max_hold, entry_price,
                                 entry_price_adj, exit_price, fees_bps, slippage_bps)
        IN  [acc EXCEPT !.trades = Append(@, trade)]

\* Mutation of BacktestIteration: the breaker is consulted before the exit
\* bar is looked for.
BacktestIterationBreakerFirst(df, cfg, signal_idx, acc) ==
    LET max_hold == Get(Get(cfg, "portfolio", <<>>), "max_hold_days", DefaultMaxHoldDays)
        guard    == Get(Get(cfg, "execution", <<>>), "circuit_guard_pct",
                        DefaultCircuitGuardPct)
    IN  IF signal_idx + 1 + max_hold <= Len(df.Open)
        THEN BacktestFill(df, cfg, signal_idx, acc)
        ELSE IF /\ signal_idx + 1 <= Len(df.Open)
                /\ CircuitBreakerTrips(df.Open[signal_idx + 1], df.Close[signal_idx], guard)
             THEN [acc EXCEPT !.unfilled =
                     Append(@, [date |-> signal_idx + 1, reason |-> "circuit_breaker"])]
             ELSE acc

\* One pass of run_backtest's loop body for the signal at bar signal_idx:
\* the lists acc = [trades, unfilled] after it.  A signal whose exit bar is
\* past the end of the data is skipped.
BacktestIteration(df, cfg, signal_idx, acc) ==
    LET portfolio_config == Get(cfg, "portfolio", <<>>)
        max_hold         == Get(portfolio_config, "max_hold_days", DefaultMaxHoldDays)
        entry_idx        == signal_idx + 1
        exit_idx         == entry_idx + max_hold
    IN  IF exit_idx > Len(df.Open) THEN acc
        ELSE BacktestFill(df, cfg, signal_idx, acc)

RECURSIVE BacktestLoop(_, _, _, _, _)
BacktestLoop(df, cfg, signal_indices, k, acc) ==
    IF k > Len(signal_indices) THEN acc
    ELSE BacktestLoop(df, cfg, signal_indices, k + 1,
                      BacktestIteration(df, cfg, signal_indices[k], acc))

\* run_backtest(data, signals, config): both lists as they stand at the
\* return; the function returns only .trades (an empty frame when there are
\* none).
RunBacktestLists(df, sig, cfg) ==
    BacktestLoop(df, cfg, SignalIndices(sig), 1, [trades |-> <<>>, unfilled |-> <<>>])

RunBacktest(df, sig, cfg) == RunBacktestLists(df, sig, cfg).trades


-----------------------------------------------------------------------------
(* Inputs of run_backtest.                                                 *)

\* The (Open, Close) pairs a bar is drawn from.  After a close of 100 the
\* opens 90 and 110 are gaps of exactly 10%, 120 of exactly 20%.
BarChoices == {<<100, 100>>, <<110, 100>>, <<90, 100>>, <<120, 110>>}

PriceFrames ==
    {[Open  |-> [i \in 1..NumBars |-> bars[i][1]],
      Close |-> [i \in 1..NumBars |-> bars[i][2]]] : bars \in [1..NumBars -> BarChoices]}

GuardChoices == {Rat(1, 10), Rat(1, 5)}
TestSlippageModel == [gap_2pct |-> 5, gap_5pct |-> 10, gap_high |-> 20]

BacktestConfigs ==
    {[portfolio |-> [max_hold_days |-> h],
      execution |-> [fees_bps |-> 10, circuit_guard_pct |-> g,
                     slippage_model |-> TestSlippageModel]] :
        h \in 1..MaxHoldDays, g \in GuardChoices}

InitBacktest ==
    /\ pc = "run_backtest"
    /\ data \in PriceFrames
    /\ signals \in [1..NumBars -> BOOLEAN]
    /\ config \in BacktestConfigs
    /\ trades = <<>>
    /\ unfilled_trades = <<>>
    /\ returned = <<>>
    /\ SelectIdle /\ DayIdle /\ MetricsIdle /\ FeaturesIdle /\ FitIdle /\ DetectorIdle /\ WalkForwardIdle /\ UniverseIdle /\ ConfigIdle

\* The call run_backtest(data, signals, config), entry to return.
RunBacktestCall ==
    /\ pc = "run_backtest"
    /\ LET lists == RunBacktestLists(data, signals, config)
       IN  /\ trades' = lists.trades
           /\ unfilled_trades' = lists.unfilled
           /\ returned' = lists.trades   \* pd.DataFrame(trades); unfilled_trades is dropped
    /\ pc' = "returned"
    /\ UNCHANGED <<data, signals, config, selectVars, dayVars, metricsVars,
                   featureVars, fitVars, detectorVars, walkForwardVars, universeVars, configVars>>

NextBacktest == RunBacktestCall

SpecBacktest == InitBacktest /\ [][NextBacktest]_vars

\* Inputs of run_backtest around the slippage tiers: every close is 100, so
\* an open of 102 or 98 is a gap of exactly 2%, 105 of exactly 5%; the first
\* bar's open is read by nothing.  All these gaps are below the guard.
TierOpens == {100, 101, 102, 98, 105, 106}

TierFrames ==
    {[Open  |-> [i \in 1..NumTierBars |-> IF i = 1 THEN 100 ELSE opens[i]],
      Close |-> [i \in 1..NumTierBars |-> 100]] :
        opens \in [2..NumTierBars -> TierOpens]}

\* The slippage models: the one of the tests, none (the defaults apply), and
\* one without gap_5pct and with no slippage in the lowest tier.
TierSlippageModels ==
    <<TestSlippageModel, <<>>, [gap_2pct |-> 0, gap_high |-> 30]>>
TierFees == {0, 25}

TierConfig(model, fees) ==
    [portfolio |-> [max_hold_days |-> 1],
     execution |-> [fees_bps |-> fees, circuit_guard_pct |-> Rat(1, 10),
                    slippage_model |-> model]]

InitSlippage ==
    /\ pc = "run_backtest"
    /\ data \in TierFrames
    /\ signals \in [1..NumTierBars -> BOOLEAN]
    /\ \E m \in DOMAIN TierSlippageModels, fees \in TierFees :
          config = TierConfig(TierSlippageModels[m], fees)
    /\ trades = <<>>
    /\ unfilled_trades = <<>>
    /\ returned = <<>>
    /\ SelectIdle /\ DayIdle /\ MetricsIdle /\ FeaturesIdle /\ FitIdle /\ DetectorIdle /\ WalkForwardIdle /\ UniverseIdle /\ ConfigIdle

SpecSlippage == InitSlippage /\ [][NextBacktest]_vars

\* What the properties of run_backtest read off a returned call.
MaxHoldOf(cfg) == cfg.portfolio.max_hold_days
GuardOf(cfg) == cfg.execution.circuit_guard_pct
HasFutureData(i) == i + 1 + MaxHoldOf(config) <= Len(data.Open)
EntryGapAbs(i) == RAbs(GapPct(data.Open[i + 1], data.Close[i]))
TradeFromSignal(i) == \E k \in 1..Len(trades) : trades[k].entry_date = i + 1
LiveSignals == {i \in 1..Len(signals) : signals[i] /\ HasFutureData(i)}

\* C1 (as claimed): Circuit breaker safety in run_backtest.  For every signal
\* with enough future data, an entry gap abs((open[i+1] - close[i]) / close[i])
\* above circuit_guard_pct yields no trade from that signal, and a gap exactly
\* equal to circuit_guard_pct is not rejected (its trade is in the ledger).
C1_CircuitBreakerStrict ==
    pc = "returned" =>
        \A i \in LiveSignals :
            /\ RLess(GuardOf(config), EntryGapAbs(i)) => ~TradeFromSignal(i)
            /\ EntryGapAbs(i) = GuardOf(config) => TradeFromSignal(i)

\* C1, the half that holds: a gap above the guard never produces a trade,
\* and a gap below the guard always does.
C1_AboveGuardNoTrade ==
    pc = "returned" =>
        \A i \in LiveSignals :
            /\ RLess(GuardOf(config), EntryGapAbs(i)) => ~TradeFromSignal(i)
            /\ RLess(EntryGapAbs(i), GuardOf(config)) => TradeFromSignal(i)


\* The trades and the unfilled entries of the returned call that come from
\* the signal at bar i.
TradesFromSignal(i) == {k \in 1..Len(trades) : trades[k].entry_date = i + 1}
UnfilledFromSignal(i) ==
    {k \in 1..Len(unfilled_trades) : unfilled_trades[k].date = i + 1}
PassesBreaker(i) ==
    ~CircuitBreakerTrips(data.Open[i + 1], data.Close[i], GuardOf(config))

\* C14: Trade timing in run_backtest.  Every trade of the ledger comes from
\* one signal bar i: it enters at bar i+1 at open[i+1] and exits at bar
\* i+1+max_hold at close[i+1+max_hold].  Every signal with enough future data
\* that passes the circuit breaker yields exactly one trade, and the ledger
\* is in increasing order of signal bar.
C14_TradeTiming ==
    pc = "returned" =>
        /\ \A k \in 1..Len(trades) :
              LET i == trades[k].entry_date - 1
              IN  /\ i \in 1..Len(signals) /\ signals[i]
                  /\ trades[k].exit_date = i + 1 + MaxHoldOf(config)
                  /\ trades[k].exit_date <= Len(data.Close)
                  /\ trades[k].entry_price = data.Open[i + 1]
                  /\ trades[k].exit_price = data.Close[i + 1 + MaxHoldOf(config)]
                  /\ trades[k].hold_days = MaxHoldOf(config)
        /\ \A i \in LiveSignals :
              PassesBreaker(i) => Cardinality(TradesFromSignal(i)) = 1
        /\ \A k \in 1..(Len(trades) - 1) :
              trades[k].entry_date < trades[k + 1].entry_date

\* C14 witness: a returned ledger of two trades, the second entered at an
\* open away from the close before it, and a third signal without a trade.
C14_TwoTradesInOrder ==
    /\ pc = "returned"
    /\ Len(trades) = 2
    /\ trades[2].entry_price # data.Close[trades[2].entry_date - 1]
    /\ \E i \in 1..Len(signals) : signals[i] /\ TradesFromSignal(i) = {}

\* C17: Insufficient future data.  A signal at bar i whose exit bar
\* i+1+max_hold is past the end of the data produces no trade and no
\* unfilled entry, and the signals around it are processed as they would be
\* without it: the call returns the ledgers of the remaining signals.
C17_InsufficientFutureData ==
    pc = "returned" =>
        /\ \A i \in 1..Len(signals) :
              (signals[i] /\ ~HasFutureData(i)) =>
                  /\ TradesFromSignal(i) = {}
                  /\ UnfilledFromSignal(i) = {}
        /\ LET kept == [i \in 1..Len(signals) |-> signals[i] /\ HasFutureData(i)]
               rest == RunBacktestLists(data, kept, config)
           IN  trades = rest.trades /\ unfilled_trades = rest.unfilled

\* C17 witness: a signal without enough future data, whose entry the
\* breaker would have rejected, after a signal that was filled.
C17_DiscardedAfterFill ==
    /\ pc = "returned"
    /\ Len(trades) >= 1
    /\ \E i \in 1..(Len(signals) - 1) :
          /\ signals[i] /\ ~HasFutureData(i)
          /\ ~PassesBreaker(i)


\* What the properties of the slippage read off a trade of the ledger.
EntryOpen(t) == data.Open[t.entry_date]
PrevClose(t) == data.Close[t.entry_date - 1]
\* abs(entry gap) against pct percent.
GapBelowPct(t, pct) == 100 * Abs(EntryOpen(t) - PrevClose(t)) < pct * PrevClose(t)
ConfiguredBps(key, default) ==
    LET model == config.execution.slippage_model
    IN  IF key \in DOMAIN model THEN model[key] ELSE default
TierBps(t) ==
    IF GapBelowPct(t, 2) THEN ConfiguredBps("gap_2pct", DefaultGap2Pct)
    ELSE IF GapBelowPct(t, 5) THEN ConfiguredBps("gap_5pct", DefaultGap5Pct)
    ELSE ConfiguredBps("gap_high", DefaultGapHigh)

\* C15: Slippage tiers and adverse fill.  For every filled trade slippage_bps
\* is gap_2pct when abs(entry gap) < 2%, gap_5pct when 2% <= abs(entry gap) <
\* 5% and gap_high when abs(entry gap) >= 5%, entry_price_adj is
\* open[entry] * (1 + slippage_bps / 10000), and entry_price_adj is never
\* below open[entry].
C15_SlippageTiers ==
    pc = "returned" =>
        \A k \in 1..Len(trades) :
            LET t == trades[k]
            IN  /\ t.slippage_bps = TierBps(t)
                /\ t.entry_price_adj.n * BpsPerUnit
                      = EntryOpen(t) * (BpsPerUnit + t.slippage_bps) * t.entry_price_adj.d
                /\ t.entry_price_adj.n >= EntryOpen(t) * t.entry_price_adj.d

\* C15 witness: a ledger with one trade entered at a gap of exactly 2% and
\* one at a gap of exactly 5%, with different slippage.
C15_BothBoundariesFilled ==
    /\ pc = "returned"
    /\ \E j, k \in 1..Len(trades) :
          /\ 100 * Abs(EntryOpen(trades[j]) - PrevClose(trades[j])) = 2 * PrevClose(trades[j])
          /\ 100 * Abs(EntryOpen(trades[k]) - PrevClose(trades[k])) = 5 * PrevClose(trades[k])
          /\ trades[j].slippage_bps < trades[k].slippage_bps

\* The configuration with another fees_bps.
WithFees(cfg, fees) == [cfg EXCEPT !.execution.fees_bps = fees]

\* C16: Fees are not netted.  Two runs of run_backtest on the same data and
\* signals that differ only in fees_bps return the same trades, with the
\* same return_pct = (exit_price - entry_price_adj) / entry_price_adj; only
\* the fees_bps field of the trades differs.
C16_FeesNotNetted ==
    pc = "returned" =>
        /\ \A k \in 1..Len(trades) :
              /\ trades[k].fees_bps = config.execution.fees_bps
              /\ trades[k].return_pct
                    = RDiv(RSub(RInt(trades[k].exit_price), trades[k].entry_price_adj),
                           trades[k].entry_price_adj)
        /\ \A fees \in TierFees :
              LET other == RunBacktest(data, signals, WithFees(config, fees))
              IN  /\ Len(other) = Len(trades)
                  /\ \A k \in 1..Len(trades) :
                        other[k] = [trades[k] EXCEPT !.fees_bps = fees]

\* C16 witness: a trade with fees of 25 bps and slippage, closed at a gain.
C16_FeesRecordedOnGain ==
    /\ pc = "returned"
    /\ \E k \in 1..Len(trades) :
          /\ trades[k].fees_bps = 25
          /\ trades[k].slippage_bps > 0
          /\ trades[k].return_pct.n > 0


\* The records of a list that report the rejection of the entry at bar i+1
\* by the circuit breaker.
RejectionsOf(list, i) ==
    {k \in 1..Len(list) :
        /\ "reason" \in DOMAIN list[k]
        /\ list[k].reason = "circuit_breaker"
        /\ list[k].date = i + 1}
RejectedSignals == {i \in LiveSignals : ~PassesBreaker(i)}

\* C18 (as claimed): Rejections are reported as data.  The value run_backtest
\* returns holds, beside the filled trades, one record for every signal the
\* circuit breaker rejected, with a reason code naming the circuit breaker;
\* a rejection raises nothing and the signals after it are processed.
C18_RejectionsReturned ==
    pc = "returned" =>
        /\ \A i \in RejectedSignals : Cardinality(RejectionsOf(returned, i)) = 1
        /\ \A i \in LiveSignals : PassesBreaker(i) => TradeFromSignal(i)

\* C18, the part that holds: every rejected signal is in the function's
\* local list unfilled_trades exactly once with reason "circuit_breaker",
\* the list holds nothing else, and the signals after a rejection are
\* processed.
C18_RejectionsRecorded ==
    pc = "returned" =>
        /\ \A i \in RejectedSignals : Cardinality(RejectionsOf(unfilled_trades, i)) = 1
        /\ \A k \in 1..Len(unfilled_trades) :
              unfilled_trades[k].date - 1 \in RejectedSignals
        /\ \A i \in LiveSignals : PassesBreaker(i) => TradeFromSignal(i)
        /\ returned = trades


-----------------------------------------------------------------------------
(* src/pipeline.py: _select_positions                                      *)

\* Ticker symbols, and their place in ascending (alphabetical) order.
Symbols == {"STOCK_A", "STOCK_B", "STOCK_C"}
SymbolRank == [s \in Symbols |->
                 CASE s = "STOCK_A" -> 1 [] s = "STOCK_B" -> 2 [] s = "STOCK_C" -> 3]

\* median_turnover[symbol] = all_data[symbol]["Turnover"].median()
MedianTurnover(frames, symbol) ==
    Median([i \in DOMAIN frames[symbol].Turnover |-> RInt(frames[symbol].Turnover[i])])

\* Mutation of SortsBefore: no tie-break on the symbol.
SortsBeforeNoSymbol(r1, r2) ==
    \/ r1.signal > r2.signal
    \/ /\ r1.signal = r2.signal
       /\ RLess(r2.median_turnover, r1.median_turnover)

\* sort_values(by = [signal, median_turnover, symbol],
\*             ascending = [False, False, True]): row r1 sorts before r2.
SortsBefore(r1, r2) ==
    \/ r1.signal > r2.signal
    \/ /\ r1.signal = r2.signal
       /\ \/ RLess(r2.median_turnover, r1.median_turnover)
          \/ /\ r1.median_turnover = r2.median_turnover
             /\ SymbolRank[r1.symbol] < SymbolRank[r2.symbol]

\* The sort is stable: rows with equal keys keep their order.
RECURSIVE InsertRow(_, _)
InsertRow(sorted, r) ==
    IF sorted = <<>> THEN <<r>>
    ELSE IF SortsBefore(r, Head(sorted)) THEN <<r>> \o sorted
    ELSE <<Head(sorted)>> \o InsertRow(Tail(sorted), r)

RECURSIVE SortValuesFrom(_, _)
SortValuesFrom(rows, k) ==
    IF k = 0 THEN <<>> ELSE InsertRow(SortValuesFrom(rows, k - 1), rows[k])

SortValues(rows) == SortValuesFrom(rows, Len(rows))

\* Mutation of WithoutSymbols: the isin mask selects every row.
AllRowsKept(rows, symbols) == rows

\* Mutation of CandidateSignals: the lockout is not applied.
CandidateSignalsUnfiltered(rows, cfg, open) == rows

\* signals[~signals["symbol"].isin(open_positions)] when reentry_lockout is
\* set (the default), every row otherwise.
RECURSIVE WithoutSymbols(_, _)
WithoutSymbols(rows, symbols) ==
    IF rows = <<>> THEN <<>>
    ELSE (IF Head(rows).symbol \in symbols THEN <<>> ELSE <<Head(rows)>>)
         \o WithoutSymbols(Tail(rows), symbols)

CandidateSignals(rows, cfg, open) ==
    IF Get(cfg, "reentry_lockout", TRUE) THEN WithoutSymbols(rows, open) ELSE rows

\* Mutation of AvailableSlots: the open positions are not subtracted.
AvailableSlotsOfMax(cfg, open) == cfg.max_concurrent

\* available_slots = max_concurrent - len(open_positions)
AvailableSlots(cfg, open) == cfg.max_concurrent - Cardinality(open)

\* DataFrame.head(n), n >= 0
HeadRows(rows, n) == SubSeq(rows, 1, IF n < Len(rows) THEN n ELSE Len(rows))

\* _select_positions(signals, all_data, portfolio_cfg, open_positions)
SelectPositions(rows, frames, cfg, open) ==
    LET available_slots == AvailableSlots(cfg, open)
    IN  IF available_slots <= 0 \/ rows = <<>> THEN <<>>
        ELSE
        LET with_turnover == [i \in DOMAIN rows |->
                                [symbol |-> rows[i].symbol, date |-> rows[i].date,
                                 signal |-> rows[i].signal,
                                 median_turnover |-> MedianTurnover(frames, rows[i].symbol)]]
            candidate_signals   == SortValues(CandidateSignals(with_turnover, cfg, open))
            selected_candidates == HeadRows(candidate_signals, available_slots)
        IN  [i \in DOMAIN selected_candidates |->
                [symbol      |-> selected_candidates[i].symbol,
                 entry_date  |-> selected_candidates[i].date,
                 entry_price |-> frames[selected_candidates[i].symbol]
                                     .Open[selected_candidates[i].date],
                 size        |-> cfg.position_size]]


-----------------------------------------------------------------------------
(* Inputs of _select_positions.                                            *)

ScoreChoices == {8, 9}
SignalDate == 1
SignalRowChoices == [symbol : Symbols, date : {SignalDate}, signal : ScoreChoices]
SignalFrames == UNION {[1..n -> SignalRowChoices] : n \in 0..MaxRows}

\* STOCK_A has the lowest median turnover (2); STOCK_B and STOCK_C tie (4).
SampleData ==
    [s \in Symbols |->
        CASE s = "STOCK_A" -> [Turnover |-> <<1, 3>>, Open |-> [d \in 1..MaxDays |-> 100 + d]]
          [] s = "STOCK_B" -> [Turnover |-> <<4>>, Open |-> [d \in 1..MaxDays |-> 200 + d]]
          [] s = "STOCK_C" -> [Turnover |-> <<3, 4, 5>>, Open |-> [d \in 1..MaxDays |-> 300 + d]]]

PortfolioConfigs ==
    {[max_concurrent |-> m, position_size |-> 100000, reentry_lockout |-> l] :
        m \in 0..MaxConcurrent, l \in BOOLEAN}
    \cup {[max_concurrent |-> m, position_size |-> 100000] : m \in 0..MaxConcurrent}

InitSelect ==
    /\ pc = "select_positions"
    /\ signal_rows \in SignalFrames
    /\ all_data = SampleData
    /\ portfolio_cfg \in PortfolioConfigs
    /\ open_positions \in SUBSET Symbols
    /\ new_positions = <<>>
    /\ BacktestIdle /\ DayIdle /\ MetricsIdle /\ FeaturesIdle /\ FitIdle /\ DetectorIdle /\ WalkForwardIdle /\ UniverseIdle /\ ConfigIdle

\* The call _select_positions(signals, all_data, portfolio_cfg, open_positions).
SelectPositionsCall ==
    /\ pc = "select_positions"
    /\ new_positions' = SelectPositions(signal_rows, all_data, portfolio_cfg, open_positions)
    /\ pc' = "returned"
    /\ UNCHANGED <<signal_rows, all_data, portfolio_cfg, open_positions, backtestVars, dayVars,
                   metricsVars,
                   featureVars, fitVars, detectorVars, walkForwardVars, universeVars, configVars>>

NextSelect == SelectPositionsCall

SpecSelect == InitSelect /\ [][NextSelect]_vars

\* What the properties of _select_positions read off a returned call.
LockoutOn == "reentry_lockout" \notin DOMAIN portfolio_cfg \/ portfolio_cfg.reentry_lockout
SlotsLeft == portfolio_cfg.max_concurrent - Cardinality(open_positions)
EligibleRows ==
    {i \in 1..Len(signal_rows) : LockoutOn => signal_rows[i].symbol \notin open_positions}
RanksAbove(i, j) ==
    LET ti == MedianTurnover(all_data, signal_rows[i].symbol)
        tj == MedianTurnover(all_data, signal_rows[j].symbol)
    IN  \/ signal_rows[i].signal > signal_rows[j].signal
        \/ /\ signal_rows[i].signal = signal_rows[j].signal
           /\ \/ RLess(tj, ti)
              \/ ti = tj /\ SymbolRank[signal_rows[i].symbol] < SymbolRank[signal_rows[j].symbol]
SameKey(i, j) ==
    /\ signal_rows[i].signal = signal_rows[j].signal
    /\ signal_rows[i].symbol = signal_rows[j].symbol
NumAbove(i) == Cardinality({j \in EligibleRows : RanksAbove(j, i)})
NumSame(i) == Cardinality({j \in EligibleRows : SameKey(j, i)})
Min(a, b) == IF a < b THEN a ELSE b
Max(a, b) == IF a > b THEN a ELSE b
SymbolsOf(positions) == [k \in DOMAIN positions |-> positions[k].symbol]
RowPermutations(n) == {p \in [1..n -> 1..n] : \A a, b \in 1..n : p[a] = p[b] => a = b}

\* C2: Bounded admission.  _select_positions returns at most
\* max(0, max_concurrent - |open_positions|) Positions, so open plus admitted
\* never exceeds max_concurrent when the open set is within it; with no slot
\* left or no candidate row it returns the empty list.
C2_BoundedAdmission ==
    pc = "returned" =>
        /\ Len(new_positions) <= Max(0, SlotsLeft)
        /\ Cardinality(open_positions) <= portfolio_cfg.max_concurrent
             => Cardinality(open_positions) + Len(new_positions) <= portfolio_cfg.max_concurrent
        /\ (SlotsLeft <= 0 \/ signal_rows = <<>>) => new_positions = <<>>

\* C2 witness: a call with open positions and more eligible rows than slots,
\* which fills every slot left.
C2_SlotsFilled ==
    /\ pc = "returned"
    /\ open_positions # {}
    /\ SlotsLeft > 0
    /\ Cardinality(EligibleRows) > SlotsLeft
    /\ Len(new_positions) = SlotsLeft

\* C3: Deterministic admission order.  The returned list is the first
\* available_slots eligible candidates in the order (signal descending,
\* median turnover descending, symbol ascending), and every permutation of
\* the candidate rows returns the same symbols in the same order.
C3_DeterministicOrder ==
    pc = "returned" =>
        /\ Len(new_positions) = Min(Max(0, SlotsLeft), Cardinality(EligibleRows))
        /\ \A k \in 1..Len(new_positions) :
              \E i \in EligibleRows :
                  /\ new_positions[k].symbol = signal_rows[i].symbol
                  /\ NumAbove(i) < k
                  /\ k <= NumAbove(i) + NumSame(i)
        /\ \A p \in RowPermutations(Len(signal_rows)) :
              SymbolsOf(SelectPositions([k \in 1..Len(signal_rows) |-> signal_rows[p[k]]],
                                        all_data, portfolio_cfg, open_positions))
                = SymbolsOf(new_positions)

\* C3 witness: STOCK_C is listed before STOCK_B with the same signal and the
\* same median turnover, and STOCK_B is admitted first.
C3_TieBrokenBySymbol ==
    /\ pc = "returned"
    /\ Len(signal_rows) >= 2
    /\ signal_rows[1].symbol = "STOCK_C" /\ signal_rows[2].symbol = "STOCK_B"
    /\ signal_rows[1].signal = signal_rows[2].signal
    /\ Len(new_positions) >= 2
    /\ new_positions[1].symbol = "STOCK_B" /\ new_positions[2].symbol = "STOCK_C"

\* C4: Re-entry lockout per call.  With reentry_lockout set, no returned
\* Position is for a symbol of open_positions, and a locked-out row takes no
\* slot: the rows admitted are as many as the slots, or all that are eligible.
C4_ReentryLockout ==
    (pc = "returned" /\ LockoutOn) =>
        /\ \A k \in 1..Len(new_positions) : new_positions[k].symbol \notin open_positions
        /\ LET free == {i \in 1..Len(signal_rows) : signal_rows[i].symbol \notin open_positions}
           IN  Len(new_positions) = Min(Max(0, SlotsLeft), Cardinality(free))

\* C4 witness: the best-ranked row is locked out and the slot goes to the
\* row ranked after it.
C4_LockedOutRowSkipped ==
    /\ pc = "returned" /\ LockoutOn
    /\ \E i \in 1..Len(signal_rows) :
          /\ signal_rows[i].symbol \in open_positions
          /\ \A j \in 1..Len(signal_rows) : signal_rows[j].signal <= signal_rows[i].signal - 1 \/ j = i
    /\ SlotsLeft = 1
    /\ Len(new_positions) = 1


\* The open of a symbol on a date of its data.
OpenOn(symbol, date) == all_data[symbol].Open[date]
\* The row a Position was made from has the Position's symbol and date.
FromRow(position) ==
    \E i \in 1..Len(signal_rows) :
        /\ signal_rows[i].symbol = position.symbol
        /\ signal_rows[i].date = position.entry_date

\* C19 (as claimed): Admitted position pricing.  Every Position returned by
\* _select_positions has size position_size and, as entry price, the next
\* open of its symbol after the signal date, not the open of the signal date.
C19_NextOpenEntryPrice ==
    pc = "returned" =>
        \A k \in 1..Len(new_positions) :
            /\ FromRow(new_positions[k])
            /\ new_positions[k].size = portfolio_cfg.position_size
            /\ new_positions[k].entry_date + 1 \in DOMAIN all_data[new_positions[k].symbol].Open
            /\ new_positions[k].entry_price
                  = OpenOn(new_positions[k].symbol, new_positions[k].entry_date + 1)

\* C19, the part that holds: every Position has size position_size, the
\* date of its signal as entry date and the open of that date as entry price.
C19_SignalDateOpenEntryPrice ==
    pc = "returned" =>
        \A k \in 1..Len(new_positions) :
            /\ FromRow(new_positions[k])
            /\ new_positions[k].size = portfolio_cfg.position_size
            /\ new_positions[k].entry_price
                  = OpenOn(new_positions[k].symbol, new_positions[k].entry_date)


-----------------------------------------------------------------------------
(* The trading-day loop around _select_positions.  run_pipeline calls      *)
(* _select_positions for a single date with no open position; the loop     *)
(* over dates is the one the design describes: on each date positions      *)
(* close first, then the date's signals are put to _select_positions with  *)
(* the symbols still open, and the Positions returned are opened.          *)

\* run_pipeline's signal list for a date: one row per symbol of all_data
\* that has a signal, in the dictionary's order.
RECURSIVE SignalRowsFor(_, _, _)
SignalRowsFor(order, score, date) ==
    IF order = <<>> THEN <<>>
    ELSE (IF score[Head(order)] = 0 THEN <<>>
          ELSE <<[symbol |-> Head(order), date |-> date, signal |-> score[Head(order)]]>>)
         \o SignalRowsFor(Tail(order), score, date)

SymbolOrder == <<"STOCK_A", "STOCK_B", "STOCK_C">>

\* The open positions left once those at the places in closing have closed.
RECURSIVE KeepPositionsFrom(_, _, _)
KeepPositionsFrom(book, closing, k) ==
    IF k > Len(book) THEN <<>>
    ELSE (IF k \in closing THEN <<>> ELSE <<book[k]>>)
         \o KeepPositionsFrom(book, closing, k + 1)

OpenSymbols(book) == {book[k].symbol : k \in 1..Len(book)}

InitDays ==
    /\ pc = "day_loop"
    /\ position_book = <<>>
    /\ today = 1
    /\ all_data = SampleData
    /\ portfolio_cfg \in {[max_concurrent |-> m, position_size |-> 100000,
                           reentry_lockout |-> l] : m \in 1..MaxConcurrent, l \in BOOLEAN}
    /\ signal_rows = <<>>
    /\ open_positions = {}
    /\ new_positions = <<>>
    /\ BacktestIdle /\ MetricsIdle /\ FeaturesIdle /\ FitIdle /\ DetectorIdle /\ WalkForwardIdle /\ UniverseIdle /\ ConfigIdle

\* One trading date: any of the open positions close, the date's signals
\* (at most one per symbol) are put to _select_positions, the Positions
\* returned are opened.
TradingDay ==
    /\ pc = "day_loop"
    /\ today <= MaxDays
    /\ \E closing \in SUBSET (1..Len(position_book)),
          score \in [Symbols -> {0} \cup ScoreChoices] :
         LET kept == KeepPositionsFrom(position_book, closing, 1)
             rows == SignalRowsFor(SymbolOrder, score, today)
             admitted == SelectPositions(rows, all_data, portfolio_cfg, OpenSymbols(kept))
         IN  /\ signal_rows' = rows
             /\ open_positions' = OpenSymbols(kept)
             /\ new_positions' = admitted
             /\ position_book' = kept \o admitted
    /\ today' = today + 1
    /\ UNCHANGED <<pc, all_data, portfolio_cfg, backtestVars, metricsVars,
                   featureVars, fitVars, detectorVars, walkForwardVars, universeVars, configVars>>

NextDays == TradingDay

SpecDays == InitDays /\ [][NextDays]_vars

-----------------------------------------------------------------------------
(* src/metrics.py: aggregate_portfolio_returns                             *)

\* sorted(trades, key = lambda t: t.entry_date): stable.
RECURSIVE InsertTrade(_, _)
InsertTrade(sorted, t) ==
    IF sorted = <<>> THEN <<t>>
    ELSE IF t.entry_date < Head(sorted).entry_date THEN <<t>> \o sorted
    ELSE <<Head(sorted)>> \o InsertTrade(Tail(sorted), t)

RECURSIVE SortedByEntryDateFrom(_, _)
SortedByEntryDateFrom(ts, k) ==
    IF k = 0 THEN <<>> ELSE InsertTrade(SortedByEntryDateFrom(ts, k - 1), ts[k])

SortedByEntryDate(ts) == SortedByEntryDateFrom(ts, Len(ts))

\* Mutation of ExitReached: a trade is closed the day after its exit date.
ExitReachedLate(trade, current_date) == current_date > trade.exit_date

\* current_date >= trade.exit_date
ExitReached(trade, current_date) == current_date >= trade.exit_date

\* The trades of active the exit loop collects on current_date.
RECURSIVE ExitedTrades(_, _)
ExitedTrades(active, current_date) ==
    IF active = <<>> THEN <<>>
    ELSE (IF ExitReached(Head(active), current_date) THEN <<Head(active)>> ELSE <<>>)
         \o ExitedTrades(Tail(active), current_date)

\* position_size * (trade.exit_price / trade.entry_price)
ExitProceeds(size, trade) == Rat(size * trade.exit_price, trade.entry_price)

RECURSIVE SumProceeds(_, _)
SumProceeds(size, exited) ==
    IF exited = <<>> THEN RInt(0)
    ELSE RAdd(ExitProceeds(size, Head(exited)), SumProceeds(size, Tail(exited)))

\* [t for t in active_trades if t not in exited_trades]
RECURSIVE NotIn(_, _)
NotIn(active, exited) ==
    IF active = <<>> THEN <<>>
    ELSE (IF \E k \in 1..Len(exited) : exited[k] = Head(active) THEN <<>>
          ELSE <<Head(active)>>)
         \o NotIn(Tail(active), exited)

\* prices.reindex(date_range, method = "ffill").ffill(): the last price at or
\* before the date; 0 when there is none (NaN).
RECURSIVE FFilled(_, _)
FFilled(prices, date) ==
    IF date = 0 THEN 0
    ELSE IF prices[date] # 0 THEN prices[date]
    ELSE FFilled(prices, date - 1)

\* The value of the open positions on a date.
RECURSIVE HoldingsValue(_, _, _, _)
HoldingsValue(active, prices, size, date) ==
    IF active = <<>> THEN RInt(0)
    ELSE LET trade == Head(active)
             current_price == FFilled(prices[trade.symbol], date)
             value == IF current_price # 0
                      THEN Rat(size * current_price, trade.entry_price)
                      ELSE RInt(size)
         IN  RAdd(value, HoldingsValue(Tail(active), prices, size, date))

\* Trades are bought at 2 and sold at 1, 2 or 3, and position_size is even,
\* so every amount is a multiple of one half and double arithmetic is exact.
TradeChoices ==
    {[symbol |-> "STOCK_A", entry_date |-> e, exit_date |-> x,
      entry_price |-> 2, exit_price |-> p, sample_type |-> "OOS"] :
        e \in 1..NumDates, x \in 1..NumDates, p \in {1, 3}}
TradeLists ==
    UNION {[1..n -> {t \in TradeChoices : t.entry_date <= t.exit_date}] : n \in 0..MaxTrades}
SamplePrices == [s \in {"STOCK_A"} |-> [d \in 1..NumDates |-> IF d = 2 THEN 3 ELSE 0]]

InitMetrics ==
    /\ pc = "aggregate"
    /\ mtrades \in TradeLists
    /\ position_size = 2
    /\ initial_capital \in {0, 2, 3, 4}
    /\ daily_prices = SamplePrices
    /\ cash = Idle /\ active_trades = Idle /\ trade_idx = Idle
    /\ dt = Idle /\ portfolio_value = Idle
    /\ BacktestIdle /\ SelectIdle /\ DayIdle /\ FeaturesIdle /\ FitIdle /\ DetectorIdle /\ WalkForwardIdle /\ UniverseIdle /\ ConfigIdle

\* Entry of aggregate_portfolio_returns, up to the first date of the loop.
AggregateStart ==
    /\ pc = "aggregate"
    /\ cash' = RInt(initial_capital)
    /\ active_trades' = <<>>
    /\ trade_idx' = 1
    /\ mtrades' = SortedByEntryDate(mtrades)
    /\ dt' = 1
    /\ portfolio_value' = <<>>
    /\ pc' = "exit"
    /\ UNCHANGED <<initial_capital, position_size, daily_prices,
                   backtestVars, selectVars, dayVars,
                   featureVars, fitVars, detectorVars, walkForwardVars, universeVars, configVars>>

\* "# Exit trades": the loop over active_trades and the filter after it.
ExitTrades ==
    /\ pc = "exit"
    /\ LET exited_trades == ExitedTrades(active_trades, dt)
       IN  /\ cash' = RAdd(cash, SumProceeds(position_size, exited_trades))
           /\ active_trades' = NotIn(active_trades, exited_trades)
    /\ pc' = "enter"
    /\ UNCHANGED <<mtrades, initial_capital, position_size, daily_prices, trade_idx, dt,
                   portfolio_value, backtestVars, selectVars, dayVars,
                   featureVars, fitVars, detectorVars, walkForwardVars, universeVars, configVars>>

\* while trade_idx < len(trades) and current_date >= trades[trade_idx].entry_date
EntryDue == trade_idx <= Len(mtrades) /\ dt >= mtrades[trade_idx].entry_date

\* Mutation of CashCovers: any cash at all pays for a position.
SomeCash == RLess(RInt(0), cash)

\* if cash >= position_size
CashCovers == RLeq(RInt(position_size), cash)

\* One pass of the "# Enter new trades" loop with cash >= position_size.
EnterTrade ==
    /\ pc = "enter"
    /\ EntryDue
    /\ CashCovers
    /\ cash' = RSub(cash, RInt(position_size))
    /\ active_trades' = Append(active_trades, mtrades[trade_idx])
    /\ trade_idx' = trade_idx + 1
    /\ UNCHANGED <<pc, mtrades, initial_capital, position_size, daily_prices, dt,
                   portfolio_value, backtestVars, selectVars, dayVars,
                   featureVars, fitVars, detectorVars, walkForwardVars, universeVars, configVars>>

\* One pass of the loop with too little cash: the trade is passed over.
SkipTrade ==
    /\ pc = "enter"
    /\ EntryDue
    /\ ~CashCovers
    /\ trade_idx' = trade_idx + 1
    /\ UNCHANGED <<pc, mtrades, initial_capital, position_size, daily_prices, cash,
                   active_trades, dt, portfolio_value, backtestVars, selectVars, dayVars,
                   featureVars, fitVars, detectorVars, walkForwardVars, universeVars, configVars>>

\* The loop's condition fails: on to "# Value open positions".
EntriesDone ==
    /\ pc = "enter"
    /\ ~EntryDue
    /\ pc' = "value"
    /\ UNCHANGED <<mtrades, initial_capital, position_size, daily_prices, cash,
                   active_trades, trade_idx, dt, portfolio_value,
                   backtestVars, selectVars, dayVars,
                   featureVars, fitVars, detectorVars, walkForwardVars, universeVars, configVars>>

\* "# Value open positions", the date's portfolio value, and the next date
\* (or the return after end_date).
ValuePositions ==
    /\ pc = "value"
    /\ portfolio_value' =
          Append(portfolio_value,
                 RAdd(cash, HoldingsValue(active_trades, daily_prices, position_size, dt)))
    /\ IF dt = NumDates
       THEN pc' = "returned" /\ dt' = dt
       ELSE pc' = "exit" /\ dt' = dt + 1
    /\ UNCHANGED <<mtrades, initial_capital, position_size, daily_prices, cash,
                   active_trades, trade_idx, backtestVars, selectVars, dayVars,
                   featureVars, fitVars, detectorVars, walkForwardVars, universeVars, configVars>>

NextMetrics ==
    \/ AggregateStart
    \/ ExitTrades
    \/ EnterTrade
    \/ SkipTrade
    \/ EntriesDone
    \/ ValuePositions

SpecMetrics == InitMetrics /\ [][NextMetrics]_vars


\* The proceeds of the trades of active whose exit date is on or before date.
RECURSIVE ProceedsDue(_, _, _)
ProceedsDue(active, size, date) ==
    IF active = <<>> THEN RInt(0)
    ELSE RAdd(IF Head(active).exit_date <= date
              THEN Rat(size * Head(active).exit_price, Head(active).entry_price)
              ELSE RInt(0),
              ProceedsDue(Tail(active), size, date))

RECURSIVE StillRunning(_, _)
StillRunning(active, date) ==
    IF active = <<>> THEN <<>>
    ELSE (IF Head(active).exit_date <= date THEN <<>> ELSE <<Head(active)>>)
         \o StillRunning(Tail(active), date)

\* C6: Close before admit on the same date.  A trade is considered for entry
\* only in the entry loop of a date, and that loop is reached only from the
\* date's exit pass, which has closed every held trade whose exit date has
\* been reached and has added its proceeds to cash: capital freed by an exit
\* on date d is there for an entry on d.
C6_CloseBeforeAdmit ==
    [][ /\ (pc # "aggregate" /\ trade_idx' # trade_idx) => (pc = "enter" /\ dt' = dt)
        /\ (pc # "enter" /\ pc' = "enter") =>
              /\ pc = "exit" /\ dt' = dt
              /\ active_trades' = StillRunning(active_trades, dt)
              /\ cash' = RAdd(cash, ProceedsDue(active_trades, position_size, dt)) ]_vars

\* C6 witness: the capital pays for one position, the first trade exits at a
\* profit on the date the second is due, and the second is entered that date.
C6_EntryOnFreedCapital ==
    /\ pc = "enter"
    /\ initial_capital = position_size
    /\ Len(mtrades) = 2 /\ trade_idx = 3
    /\ mtrades[1].entry_date < dt
    /\ mtrades[1].exit_date = dt
    /\ mtrades[2].entry_date = dt
    /\ mtrades[2].exit_date > dt
    /\ active_trades = <<mtrades[2]>>

\* The loop of aggregate_portfolio_returns is running or has returned.
AggregateRunning == pc \in {"exit", "enter", "value", "returned"}
\* The trades of active that are gone from after.
RECURSIVE Gone(_, _)
Gone(active, after) ==
    IF active = <<>> THEN <<>>
    ELSE (IF \E k \in 1..Len(after) : after[k] = Head(active) THEN <<>>
          ELSE <<Head(active)>>)
         \o Gone(Tail(active), after)
RECURSIVE ProceedsOf(_, _)
ProceedsOf(gone, size) ==
    IF gone = <<>> THEN RInt(0)
    ELSE RAdd(Rat(size * Head(gone).exit_price, Head(gone).entry_price),
              ProceedsOf(Tail(gone), size))

\* C30: Cash never goes negative in aggregate_portfolio_returns.  Cash is
\* never below zero.  A trade is entered only in the entry loop, when it is
\* the next trade of the sorted list, its entry date has come and cash covers
\* position_size; the loop passes each trade once, in order, so a trade is
\* entered at most once and a trade passed over for lack of cash leaves cash
\* and the held trades as they were and is not considered again.  Held trades
\* leave only in the exit pass, all copies of a trade at once, each paid for
\* once.
C30_CashNeverNegative ==
    /\ [](AggregateRunning => cash.n >= 0)
    /\ [][ AggregateRunning =>
             /\ trade_idx' \in {trade_idx, trade_idx + 1}
             /\ trade_idx' = trade_idx + 1 =>
                   /\ pc = "enter" /\ trade_idx <= Len(mtrades)
                   /\ mtrades[trade_idx].entry_date <= dt
                   /\ IF RLeq(RInt(position_size), cash)
                      THEN /\ active_trades' = Append(active_trades, mtrades[trade_idx])
                           /\ cash' = RSub(cash, RInt(position_size))
                      ELSE active_trades' = active_trades /\ cash' = cash
             /\ trade_idx' = trade_idx =>
                   /\ Len(active_trades') <= Len(active_trades)
                   /\ active_trades' # active_trades => pc = "exit"
                   /\ cash' = RAdd(cash, ProceedsOf(Gone(active_trades, active_trades'),
                                                    position_size))
                   /\ Len(active_trades')
                         = Len(active_trades) - Len(Gone(active_trades, active_trades'))
             /\ mtrades' = mtrades ]_vars

\* C30 witness: the second trade was passed over for lack of cash on its
\* entry date; the first has since been sold at a profit, cash covers a
\* position again, and the second trade is not held.
C30_SkippedTradeStaysOut ==
    /\ pc = "value"
    /\ Len(mtrades) = 2 /\ trade_idx = 3
    /\ mtrades[2].exit_date > dt
    /\ active_trades = <<>>
    /\ RLeq(RInt(position_size), cash)
    /\ initial_capital = position_size

-----------------------------------------------------------------------------
(* src/features.py (FeatureEngine) and src/core/features.py: the gap-z     *)
(* signal.  A series value is [nan, v]: NaN, or the rational v.  A z-score *)
(* is [nan, num, var]: NaN, or the real number num / sqrt(var), var > 0.   *)
(* The rolling statistics are the exact ones (the real-number mean and     *)
(* sample variance of the window).                                         *)

NaN == [nan |-> TRUE, v |-> RInt(0)]
Num(x) == [nan |-> FALSE, v |-> x]
NaNScore == [nan |-> TRUE, num |-> RInt(0), var |-> RInt(1)]

\* x < y, by the sign of the difference (keeps the integers small).
RLt(x, y) == RSub(x, y).n < 0

\* gap_pct = (df["Open"] - df["Close"].shift(1)) / df["Close"].shift(1)
AddGapPercentage(frame) ==
    [t \in 1..Len(frame.Open) |->
        IF t = 1 THEN NaN
        ELSE Num(Rat(frame.Open[t] - frame.Close[t - 1], frame.Close[t - 1]))]

\* The non-NaN values of column[lo..hi], in order.
RECURSIVE ObservationsFrom(_, _, _)
ObservationsFrom(column, lo, hi) ==
    IF lo > hi THEN <<>>
    ELSE (IF column[lo].nan THEN <<>> ELSE <<column[lo].v>>)
         \o ObservationsFrom(column, lo + 1, hi)

\* The observations of the window of rolling(window) that ends at row t.
Observations(column, t, win) ==
    ObservationsFrom(column, IF t - win + 1 < 1 THEN 1 ELSE t - win + 1, t)

RECURSIVE RSum(_)
RSum(xs) == IF xs = <<>> THEN RInt(0) ELSE RAdd(Head(xs), RSum(Tail(xs)))

RECURSIVE SumSqDev(_, _)
SumSqDev(xs, mean) ==
    IF xs = <<>> THEN RInt(0)
    ELSE LET dev == RSub(Head(xs), mean)
         IN  RAdd(RMul(dev, dev), SumSqDev(Tail(xs), mean))

\* rolling.mean() at row t: NaN below min_periods observations.
RollingMean(column, t, win, min_periods) ==
    LET obs == Observations(column, t, win)
    IN  IF Len(obs) >= min_periods /\ Len(obs) > 0
        THEN Num(RDiv(RSum(obs), RInt(Len(obs))))
        ELSE NaN

\* The square of rolling.std() (ddof = 1) at row t: NaN below min_periods
\* observations and on a single observation.
RollingVar(column, t, win, min_periods) ==
    LET obs == Observations(column, t, win)
    IN  IF Len(obs) >= min_periods /\ Len(obs) > 1
        THEN Num(RDiv(SumSqDev(obs, RDiv(RSum(obs), RInt(Len(obs)))),
                      RInt(Len(obs) - 1)))
        ELSE NaN

\* std.replace(0, np.nan), on the square of the standard deviation.
ReplaceZero(x) == IF ~x.nan /\ x.v.n = 0 THEN NaN ELSE x

\* (df[column] - mean) / std.replace(0, np.nan) at row t
ZScoreAt(column, t, win, min_periods) ==
    LET mean == RollingMean(column, t, win, min_periods)
        var  == IF column[t].nan \/ mean.nan THEN NaN
                ELSE ReplaceZero(RollingVar(column, t, win, min_periods))
    IN  IF column[t].nan \/ mean.nan \/ var.nan THEN NaNScore
        ELSE [nan |-> FALSE, num |-> RSub(column[t].v, mean.v), var |-> var.v]

AddRollingZscore(column, win, min_periods) ==
    [t \in 1..Len(column) |-> ZScoreAt(column, t, win, min_periods)]

\* Mutation of EngineMinPeriods: one observation is enough.
MinPeriodsOne(win) == 1

\* FeatureEngine.add_rolling_zscore: rolling(window=window), whose
\* min_periods is the window.
EngineMinPeriods(win) == win

\* core.features.add_rolling_zscore: min_periods or int(window * 0.9)
CoreMinPeriods(win) == (win * 9) \div 10

\* z < k_low for one z-score: False on NaN.  num / sqrt(var) < k is decided
\* on the squares.
ZLess(z, k) ==
    /\ ~z.nan
    /\ IF k.n < 0 THEN z.num.n < 0 /\ RLt(RMul(RMul(k, k), z.var), RMul(z.num, z.num))
       ELSE IF k.n = 0 THEN z.num.n < 0
       ELSE z.num.n < 0 \/ RLt(RMul(z.num, z.num), RMul(RMul(k, k), z.var))

\* (df_featured[zscore_col] < k_low).fillna(False)
SignalSeries(zscore, k) == [t \in 1..Len(zscore) |-> ZLess(zscore[t], k)]

GapZSignal(frame, win, k, min_periods) ==
    LET gap_pct == AddGapPercentage(frame)
        zscore  == AddRollingZscore(gap_pct, win, min_periods)
    IN  [Open |-> frame.Open, Close |-> frame.Close, gap_pct |-> gap_pct,
         signal_gapz |-> SignalSeries(zscore, k), score_gapz |-> zscore]

\* FeatureEngine.add_gap_z_signal(df, window, k_low)
EngineAddGapZSignal(frame, win, k) == GapZSignal(frame, win, k, EngineMinPeriods(win))

\* core.features.add_gap_z_signal(df, window, k_low)
CoreAddGapZSignal(frame, win, k) == GapZSignal(frame, win, k, CoreMinPeriods(win))

-----------------------------------------------------------------------------
(* Inputs of add_gap_z_signal.                                             *)

\* The (Open, Close) pairs of a bar: after a close of 10 the opens 9 and 11
\* are gaps of -10% and +10%; after a close of 12 the gaps are -1/6, -1/4,
\* -1/12 and 0.
GapBarChoices == {<<10, 10>>, <<9, 10>>, <<11, 10>>, <<12, 12>>}

GapFrames ==
    {[Open  |-> [i \in 1..NumFeatureBars |-> bars[i][1]],
      Close |-> [i \in 1..NumFeatureBars |-> bars[i][2]]] :
        bars \in [1..NumFeatureBars -> GapBarChoices]}

\* Thresholds below, between and above the z-scores of a short window.
KLowChoices == {Rat(-11, 10), Rat(-1, 2), Rat(1, 2)}

InitFeatures ==
    /\ pc \in {"engine_call", "core_call"}
    /\ df_input \in GapFrames
    /\ window \in 1..MaxWindow
    /\ k_low \in KLowChoices
    /\ df_featured = <<>>
    /\ BacktestIdle /\ SelectIdle /\ DayIdle /\ MetricsIdle /\ FitIdle /\ DetectorIdle /\ WalkForwardIdle /\ UniverseIdle /\ ConfigIdle

\* df = FeatureEngine.add_gap_z_signal(df, window, k_low)
EngineAddGapZSignalCall ==
    /\ pc = "engine_call"
    /\ df_featured' = EngineAddGapZSignal(df_input, window, k_low)
    /\ pc' = "engine_returned"
    /\ UNCHANGED <<df_input, window, k_low, backtestVars, selectVars, dayVars, metricsVars, fitVars, detectorVars, walkForwardVars, universeVars, configVars>>

\* df = features.add_gap_z_signal(df, window, k_low)
CoreAddGapZSignalCall ==
    /\ pc = "core_call"
    /\ df_featured' = CoreAddGapZSignal(df_input, window, k_low)
    /\ pc' = "core_returned"
    /\ UNCHANGED <<df_input, window, k_low, backtestVars, selectVars, dayVars, metricsVars, fitVars, detectorVars, walkForwardVars, universeVars, configVars>>

NextFeatures == EngineAddGapZSignalCall \/ CoreAddGapZSignalCall

SpecFeatures == InitFeatures /\ [][NextFeatures]_vars

\* What the properties of add_gap_z_signal read off the call.
FeaturesReturned == pc \in {"engine_returned", "core_returned"}
\* The rows of the window that ends at row t which have a gap (all but row 1).
GapRows(t) == {s \in 2..t : s > t - window}
\* The minimum number of defined gaps the implementation called asks for.
MinDefinedGaps == IF pc = "engine_returned" THEN window ELSE (9 * window) \div 10
\* The gaps of rows s and u are equal.
SameGap(s, u) ==
    (df_input.Open[s] - df_input.Close[s - 1]) * df_input.Close[u - 1]
        = (df_input.Open[u] - df_input.Close[u - 1]) * df_input.Close[s - 1]
\* The rolling standard deviation at row t exists and is exactly zero.
ZeroStd(t) ==
    /\ Cardinality(GapRows(t)) >= 2
    /\ Cardinality(GapRows(t)) >= MinDefinedGaps
    /\ \A s, u \in GapRows(t) : SameGap(s, u)

\* C7: Gap-Z signal definition.  For every price series, window and k_low,
\* signal[t] is true if and only if the z-score z[t] of the gap percentage is
\* defined and z[t] < k_low; z[t] is undefined and the signal false at the
\* first bar, at every bar whose window has fewer than the minimum number of
\* defined gaps, and at every bar whose rolling standard deviation is zero.
C7_GapZSignalDefinition ==
    FeaturesReturned =>
        \A t \in 1..Len(df_input.Open) :
            LET z == df_featured.score_gapz[t]
            IN  /\ df_featured.signal_gapz[t] <=> (~z.nan /\ ZLess(z, k_low))
                /\ (t = 1 \/ Cardinality(GapRows(t)) < MinDefinedGaps \/ ZeroStd(t))
                      => (z.nan /\ ~df_featured.signal_gapz[t])

\* C7 witness: a returned call with a signal at one bar, a bar of zero
\* standard deviation under a positive threshold, and a bar short of gaps.
C7_SignalAndZeroStd ==
    /\ pc = "engine_returned"
    /\ k_low.n > 0
    /\ \E t \in 1..Len(df_input.Open) : df_featured.signal_gapz[t]
    /\ \E t \in 1..Len(df_input.Open) : ZeroStd(t)
    /\ \E t \in 2..Len(df_input.Open) : Cardinality(GapRows(t)) < MinDefinedGaps

-----------------------------------------------------------------------------
(* src/core/detectors.py: fit_gap_z_detector.  params_grid is a dictionary *)
(* and keeps the order in which its keys were supplied: it is the sequence *)
(* of its items [name, values].  None is <<>> and a value x is <<x>>.      *)

\* -np.inf, as a best_score.
NegInf == [n |-> -1, d |-> 0]

\* {}: the dictionary without keys.
EmptyDict == [key \in {} |-> 0]

\* The tuples that begin with values[i], values[i+1], ... and go on with a
\* tuple of tails, in that order.
RECURSIVE PrependEachFrom(_, _, _)
PrependEachFrom(values, i, tails) ==
    IF i > Len(values) THEN <<>>
    ELSE [j \in 1..Len(tails) |-> <<values[i]>> \o tails[j]]
         \o PrependEachFrom(values, i + 1, tails)

\* list(product(*lists)): the first list varies slowest.
RECURSIVE Product(_)
Product(lists) ==
    IF lists = <<>> THEN << <<>> >>
    ELSE PrependEachFrom(Head(lists), 1, Product(Tail(lists)))

\* list(params_grid.keys()) and params_grid.values()
GridKeys(grid) == [i \in 1..Len(grid) |-> grid[i].name]
GridValues(grid) == [i \in 1..Len(grid) |-> grid[i].values]

\* dict(zip(param_names, params_tuple))
ParamsOf(param_names, params_tuple) ==
    [key \in {param_names[i] : i \in 1..Len(param_names)} |->
        params_tuple[CHOOSE i \in 1..Len(param_names) : param_names[i] = key]]

\* The backtest_config fit builds for one combination.
FitBacktestConfig(params) ==
    [portfolio |-> [max_hold_days |-> params.max_hold],
     execution |-> [fees_bps |-> 0, slippage_model |-> EmptyDict]]

\* The trade_ledger of one combination: features.add_gap_z_signal, then
\* backtest.run_backtest on its signals.
TrialLedger(frame, params) ==
    LET featured == CoreAddGapZSignal(frame, params.window, params.k_low)
    IN  RunBacktest(featured, featured.signal_gapz, FitBacktestConfig(params))

\* trade_ledger["return_pct"]
ReturnsOf(ledger) == [i \in 1..Len(ledger) |-> ledger[i].return_pct]

\* (returns > 0).mean()
HitRate(returns) ==
    Rat(Cardinality({i \in 1..Len(returns) : returns[i].n > 0}), Len(returns))

\* Mutation of BelowMinHitRate: no combination is filtered.
NeverBelowMinHitRate(hit_rate, threshold) == FALSE

\* hit_rate < min_hit_rate
BelowMinHitRate(hit_rate, threshold) == RLt(hit_rate, threshold)

\* Mutation of ScoreGreater: the lowest score is kept.
ScoreLower(score, best) == best = NegInf \/ RLt(score, best)

\* score > best_score
ScoreGreater(score, best) == best = NegInf \/ RLt(best, score)

-----------------------------------------------------------------------------
(* Inputs of fit_gap_z_detector.                                           *)

\* The (Open, Close) pairs of a bar.  Every close is 10, so two trades have
\* the same return exactly when they have the same entry open, and the
\* double arithmetic of the code orders returns and medians as the exact
\* arithmetic does.  The open of the first bar is read by nothing (it has no
\* gap and is no entry), so the first bar is fixed.
FitBarChoices == {<<10, 10>>, <<9, 10>>, <<11, 10>>}

FitFrames ==
    {[Open  |-> [i \in 1..NumFitBars |-> IF i = 1 THEN 10 ELSE bars[i][1]],
      Close |-> [i \in 1..NumFitBars |-> IF i = 1 THEN 10 ELSE bars[i][2]]] :
        bars \in [2..NumFitBars -> FitBarChoices]}

\* The orders in which the keys of the grid are supplied.
KeyOrders == {<<"window", "k_low", "max_hold">>, <<"max_hold", "k_low", "window">>}

\* The declared lists of the grid.
WindowList == <<2, 3>>
KLowList == <<Rat(-11, 10), Rat(-1, 2)>>
MaxHoldList == <<1, 2>>

GridItem(name) ==
    [name |-> name,
     values |-> IF name = "window" THEN WindowList
                ELSE IF name = "k_low" THEN KLowList ELSE MaxHoldList]

\* The grid with its keys in the order keys.
GridOf(keys) == [i \in 1..Len(keys) |-> GridItem(keys[i])]

\* No filter, the default of 0.4, and winners only.
MinHitRateChoices == {Rat(0, 1), Rat(2, 5), Rat(1, 1)}

InitFit ==
    /\ pc = "fit"
    /\ data \in FitFrames
    /\ \E keys \in KeyOrders : params_grid = GridOf(keys)
    /\ min_hit_rate \in MinHitRateChoices
    /\ param_combinations = <<>>
    /\ next_combo = 1
    /\ best_score = NegInf
    /\ best_params = <<>>
    /\ trade_ledger = <<>>
    /\ signals = Idle /\ config = Idle /\ trades = Idle /\ unfilled_trades = Idle
    /\ returned = Idle
    /\ SelectIdle /\ DayIdle /\ MetricsIdle /\ FeaturesIdle /\ DetectorIdle /\ WalkForwardIdle /\ UniverseIdle /\ ConfigIdle

\* The statements before the loop.
FitStart ==
    /\ pc = "fit"
    /\ best_score' = NegInf
    /\ best_params' = <<>>
    /\ param_combinations' = Product(GridValues(params_grid))
    /\ next_combo' = 1
    /\ pc' = "fit_loop"
    /\ UNCHANGED <<params_grid, min_hit_rate, trade_ledger, backtestVars, selectVars,
                   dayVars, metricsVars, featureVars, detectorVars, walkForwardVars, universeVars, configVars>>

\* The combination the loop is at.
CurrentParams == ParamsOf(GridKeys(params_grid), param_combinations[next_combo])

\* The first half of one pass of the loop: the trade ledger of the
\* combination.
FitEvaluate ==
    /\ pc = "fit_loop" /\ next_combo <= Len(param_combinations)
    /\ trade_ledger' = TrialLedger(data, CurrentParams)
    /\ pc' = "fit_judge"
    /\ UNCHANGED <<params_grid, min_hit_rate, param_combinations, next_combo, best_score,
                   best_params, backtestVars, selectVars, dayVars, metricsVars,
                   featureVars, detectorVars, walkForwardVars, universeVars, configVars>>

\* if trade_ledger.empty: continue
FitSkipNoTrades ==
    /\ pc = "fit_judge"
    /\ trade_ledger = <<>>
    /\ next_combo' = next_combo + 1
    /\ pc' = "fit_loop"
    /\ UNCHANGED <<params_grid, min_hit_rate, param_combinations, best_score,
                   best_params, trade_ledger, backtestVars, selectVars, dayVars,
                   metricsVars, featureVars, detectorVars, walkForwardVars, universeVars, configVars>>

\* if hit_rate < min_hit_rate: continue
FitSkipHitRate ==
    /\ pc = "fit_judge"
    /\ trade_ledger # <<>>
    /\ BelowMinHitRate(HitRate(ReturnsOf(trade_ledger)), min_hit_rate)
    /\ next_combo' = next_combo + 1
    /\ pc' = "fit_loop"
    /\ UNCHANGED <<params_grid, min_hit_rate, param_combinations, best_score,
                   best_params, trade_ledger, backtestVars, selectVars, dayVars,
                   metricsVars, featureVars, detectorVars, walkForwardVars, universeVars, configVars>>

\* The combination is scored, and kept when its score is greater than the
\* best so far.
FitScore ==
    /\ pc = "fit_judge"
    /\ trade_ledger # <<>>
    /\ ~BelowMinHitRate(HitRate(ReturnsOf(trade_ledger)), min_hit_rate)
    /\ LET score == Median(ReturnsOf(trade_ledger))
       IN  IF ScoreGreater(score, best_score)
           THEN best_score' = score /\ best_params' = <<CurrentParams>>
           ELSE UNCHANGED <<best_score, best_params>>
    /\ next_combo' = next_combo + 1
    /\ pc' = "fit_loop"
    /\ UNCHANGED <<params_grid, min_hit_rate, param_combinations, trade_ledger,
                   backtestVars, selectVars, dayVars, metricsVars, featureVars, detectorVars, walkForwardVars, universeVars, configVars>>

\* return best_params
FitReturn ==
    /\ pc = "fit_loop" /\ next_combo > Len(param_combinations)
    /\ pc' = "fit_returned"
    /\ UNCHANGED <<backtestVars, selectVars, dayVars, metricsVars, featureVars, fitVars, detectorVars, walkForwardVars, universeVars, configVars>>

NextFit ==
    FitStart \/ FitEvaluate \/ FitSkipNoTrades \/ FitSkipHitRate \/ FitScore \/ FitReturn

SpecFit == InitFit /\ [][NextFit]_vars

\* What the properties of fit read off the call.
FitReturned == pc = "fit_returned"
GridList(name) ==
    params_grid[CHOOSE i \in 1..Len(params_grid) : params_grid[i].name = name].values
\* The combinations in the canonical order: window outermost, then k_low,
\* then max_hold, each in the order of its declared list.
CanonicalCombinations ==
    LET tuples == Product(<<GridList("window"), GridList("k_low"), GridList("max_hold")>>)
    IN  [i \in 1..Len(tuples) |->
            [window |-> tuples[i][1], k_low |-> tuples[i][2], max_hold |-> tuples[i][3]]]
\* The combinations in the order the grid's keys were supplied.
SuppliedCombinations ==
    LET tuples == Product(GridValues(params_grid))
    IN  [i \in 1..Len(tuples) |-> ParamsOf(GridKeys(params_grid), tuples[i])]
Combinations == {CanonicalCombinations[i] : i \in 1..Len(CanonicalCombinations)}
\* For every combination of the grid: whether it traded, its hit rate and
\* its median return.
TrialSummaries ==
    [q \in Combinations |->
        LET ledger == TrialLedger(data, q)
        IN  IF ledger = <<>>
            THEN [traded |-> FALSE, hit_rate |-> RInt(0), score |-> NegInf]
            ELSE [traded   |-> TRUE,
                  hit_rate |-> HitRate(ReturnsOf(ledger)),
                  score    |-> Median(ReturnsOf(ledger))]]
Qualifies(tbl, p) == tbl[p].traded /\ ~RLt(tbl[p].hit_rate, min_hit_rate)
\* p qualifies and no qualifying combination has a greater median return.
IsBest(tbl, p) ==
    /\ Qualifies(tbl, p)
    /\ \A q \in Combinations : Qualifies(tbl, q) => ~RLt(tbl[p].score, tbl[q].score)
\* The first best combination of an enumeration (there is one).
FirstBest(tbl, combos) ==
    combos[CHOOSE i \in 1..Len(combos) :
              /\ IsBest(tbl, combos[i])
              /\ \A j \in 1..(i - 1) : ~IsBest(tbl, combos[j])]

\* C8: Fit optimality.  A combination returned by fit_gap_z_detector is an
\* element of the grid's Cartesian product, produced at least one trade with
\* hit rate >= min_hit_rate, and its median trade return is >= that of every
\* other combination that produced trades with hit rate >= min_hit_rate.
C8_FitOptimality ==
    (FitReturned /\ best_params # <<>>) =>
        /\ best_params[1] \in Combinations
        /\ LET tbl == TrialSummaries IN IsBest(tbl, best_params[1])

\* C8 witness: a combination is returned while another qualifying
\* combination has a strictly lower median return.
C8_BeatsAnotherQualifier ==
    /\ FitReturned /\ best_params # <<>>
    /\ LET tbl == TrialSummaries
       IN  \E q \in Combinations :
               Qualifies(tbl, q) /\ RLt(tbl[q].score, tbl[best_params[1]].score)

\* C9 (as claimed): Fit tie-break by canonical order.  Whatever the order in
\* which the grid's keys are supplied, the combination returned is the
\* earliest, in the enumeration window-then-k_low-then-max_hold, of the
\* qualifying combinations with the maximal median return.
C9_CanonicalTieBreak ==
    (FitReturned /\ best_params # <<>>) =>
        LET tbl == TrialSummaries
        IN  best_params[1] = FirstBest(tbl, CanonicalCombinations)

\* C9, the part that holds: the combination returned is the earliest of the
\* best in the enumeration that follows the order of the keys as supplied.
C9_FirstFoundInSuppliedOrder ==
    (FitReturned /\ best_params # <<>>) =>
        LET tbl == TrialSummaries
        IN  best_params[1] = FirstBest(tbl, SuppliedCombinations)

TrialSignals ==
    CoreAddGapZSignal(data, CurrentParams.window, CurrentParams.k_low).signal_gapz
TrialHasFutureData(i) == i + 1 + CurrentParams.max_hold <= Len(data.Open)
TrialTradeFrom(i) == \E k \in 1..Len(trade_ledger) : trade_ledger[k].entry_date = i + 1

\* C11 (as claimed): Zero-cost trial ledger in fit.  For every combination,
\* the trial trades that fit scores are computed with zero fees, zero
\* slippage and no circuit guard: every signal with enough future data
\* yields a trade, and its return_pct is (close[exit] - open[entry]) /
\* open[entry], the entry price not adjusted.
C11_ZeroCostTrialLedger ==
    pc = "fit_judge" =>
        /\ \A i \in 1..Len(TrialSignals) :
              (TrialSignals[i] /\ TrialHasFutureData(i)) => TrialTradeFrom(i)
        /\ \A k \in 1..Len(trade_ledger) :
              /\ trade_ledger[k].fees_bps = 0
              /\ trade_ledger[k].return_pct
                    = Rat(trade_ledger[k].exit_price - trade_ledger[k].entry_price,
                          trade_ledger[k].entry_price)

\* C11, the part that holds: the trial ledger records fees of zero.
C11_ZeroFeesRecorded ==
    pc = "fit_judge" => \A k \in 1..Len(trade_ledger) : trade_ledger[k].fees_bps = 0

\* C11, the slippage alone: no trial trade has its entry price adjusted.
C11_NoSlippage ==
    pc = "fit_judge" =>
        \A k \in 1..Len(trade_ledger) :
            trade_ledger[k].entry_price_adj = RInt(trade_ledger[k].entry_price)

\* C11, the circuit guard alone: every signal with enough future data trades.
C11_NoCircuitGuard ==
    pc = "fit_judge" =>
        \A i \in 1..Len(TrialSignals) :
            (TrialSignals[i] /\ TrialHasFutureData(i)) => TrialTradeFrom(i)

-----------------------------------------------------------------------------
(* src/tradesim.py and src/detector.py: the GapZDetector object.  A        *)
(* parameter dictionary is <<>> when empty ({}) and <<params>> otherwise.  *)

\* calculate_returns(data, signals, max_hold): (exit - entry) / entry for
\* every signal whose exit bar lies within the data, entry at the open of
\* the bar after the signal, exit at the close max_hold bars later.
RECURSIVE CalculateReturnsFrom(_, _, _, _)
CalculateReturnsFrom(frame, signal_locs, k, max_hold) ==
    IF k > Len(signal_locs) THEN <<>>
    ELSE LET entry_loc == signal_locs[k] + 1
             exit_loc  == entry_loc + max_hold
         IN  (IF exit_loc <= Len(frame.Open)
              THEN <<Rat(frame.Close[exit_loc] - frame.Open[entry_loc],
                         frame.Open[entry_loc])>>
              ELSE <<>>)
             \o CalculateReturnsFrom(frame, signal_locs, k + 1, max_hold)

CalculateReturns(frame, sig, max_hold) ==
    CalculateReturnsFrom(frame, SignalIndices(sig), 1, max_hold)

\* The loop of GapZDetector.fit from combination k on: acc is [best_score,
\* best_params_] as they stand before it.
RECURSIVE DetectorFitLoop(_, _, _, _, _)
DetectorFitLoop(frame, param_names, combos, k, acc) ==
    IF k > Len(combos) THEN acc
    ELSE LET params      == ParamsOf(param_names, combos[k])
             featured    == EngineAddGapZSignal(frame, params.window, params.k_low)
             returns     == CalculateReturns(featured, featured.signal_gapz,
                                             params.max_hold)
             kept        == returns # <<>> /\ ScoreGreater(Median(returns), acc.best_score)
         IN  DetectorFitLoop(frame, param_names, combos, k + 1,
                 IF kept
                 THEN [best_score |-> Median(returns), best_params_ |-> <<params>>]
                 ELSE acc)

\* self.best_params_ after GapZDetector.fit(data) on a detector that held
\* stored before the call: best_score starts at -inf, best_params_ is only
\* assigned inside the loop.
DetectorFit(grid, stored, frame) ==
    DetectorFitLoop(frame, GridKeys(grid), Product(GridValues(grid)), 1,
                    [best_score |-> NegInf, best_params_ |-> stored]).best_params_

\* Mutation of DetectorPredict: no check of best_params_, no signal without
\* parameters.
DetectorPredictUnchecked(stored, frame) ==
    [raised |-> FALSE, result |-> [t \in 1..Len(frame.Open) |-> FALSE]]

\* GapZDetector.predict(data) on a detector that holds stored: RuntimeError
\* when best_params_ is empty, else the signal_gapz column.
DetectorPredict(stored, frame) ==
    IF stored = <<>>
    THEN [raised |-> TRUE, result |-> <<>>]
    ELSE [raised |-> FALSE,
          result |-> EngineAddGapZSignal(frame, stored[1].window,
                                         stored[1].k_low).signal_gapz]

-----------------------------------------------------------------------------
(* A GapZDetector and the calls made on it.                                *)

\* The (Open, Close) pairs of a bar; the first bar is fixed (nothing reads
\* its open).
DetectorBarChoices == {<<10, 10>>, <<9, 10>>}

DetectorFrames ==
    {[Open  |-> [i \in 1..NumDetectorBars |-> IF i = 1 THEN 10 ELSE bars[i][1]],
      Close |-> [i \in 1..NumDetectorBars |-> IF i = 1 THEN 10 ELSE bars[i][2]]] :
        bars \in [2..NumDetectorBars -> DetectorBarChoices]}

\* The grid the detector is constructed with.
DetectorGrid ==
    <<[name |-> "window", values |-> <<2, 3>>],
      [name |-> "k_low", values |-> <<Rat(-1, 2)>>],
      [name |-> "max_hold", values |-> <<1, 2>>]>>

\* A parameter file left by an earlier detector.
SavedParams == [window |-> 3, k_low |-> Rat(-1, 2), max_hold |-> 1]

NoFrame == [Open |-> <<>>, Close |-> <<>>]
CallRecord(op, frame, raised, result) ==
    [op |-> op, data |-> frame, raised |-> raised, result |-> result]

\* GapZDetector(params_grid), with or without a parameter file on disk.
InitDetector ==
    /\ pc = "detector"
    /\ det_grid = DetectorGrid
    /\ best_params_ = <<>>
    /\ params_file \in {<<>>, <<SavedParams>>}
    /\ last_call = CallRecord("__init__", NoFrame, FALSE, <<>>)
    /\ history = [fitted |-> FALSE, fit_selected |-> FALSE, loaded |-> FALSE]
    /\ BacktestIdle /\ SelectIdle /\ DayIdle /\ MetricsIdle /\ FeaturesIdle /\ FitIdle /\ WalkForwardIdle /\ UniverseIdle /\ ConfigIdle

\* detector.fit(data)
DetectorFitCall ==
    /\ pc = "detector"
    /\ \E frame \in DetectorFrames :
          /\ best_params_' = DetectorFit(det_grid, best_params_, frame)
          /\ last_call' = CallRecord("fit", frame, FALSE, <<>>)
          /\ history' = [history EXCEPT
                            !.fitted = TRUE,
                            !.fit_selected = @ \/ DetectorFit(det_grid, <<>>, frame) # <<>>]
    /\ UNCHANGED <<pc, det_grid, params_file, backtestVars, selectVars, dayVars,
                   metricsVars, featureVars, fitVars, walkForwardVars, universeVars, configVars>>

\* detector.predict(data)
DetectorPredictCall ==
    /\ pc = "detector"
    /\ \E frame \in DetectorFrames :
          LET outcome == DetectorPredict(best_params_, frame)
          IN  last_call' = CallRecord("predict", frame, outcome.raised, outcome.result)
    /\ UNCHANGED <<pc, det_grid, best_params_, params_file, history, backtestVars,
                   selectVars, dayVars, metricsVars, featureVars, fitVars, walkForwardVars, universeVars, configVars>>

\* detector.save(filepath): RuntimeError when best_params_ is empty, else
\* the parameters are written as JSON (integers and floats are read back as
\* written).
DetectorSaveCall ==
    /\ pc = "detector"
    /\ IF best_params_ = <<>>
       THEN /\ last_call' = CallRecord("save", NoFrame, TRUE, <<>>)
            /\ UNCHANGED params_file
       ELSE /\ last_call' = CallRecord("save", NoFrame, FALSE, <<>>)
            /\ params_file' = best_params_
    /\ UNCHANGED <<pc, det_grid, best_params_, history, backtestVars, selectVars,
                   dayVars, metricsVars, featureVars, fitVars, walkForwardVars, universeVars, configVars>>

\* detector.load(filepath): open() raises when there is no file, else
\* best_params_ is what the file holds.
DetectorLoadCall ==
    /\ pc = "detector"
    /\ IF params_file = <<>>
       THEN /\ last_call' = CallRecord("load", NoFrame, TRUE, <<>>)
            /\ UNCHANGED <<best_params_, history>>
       ELSE /\ last_call' = CallRecord("load", NoFrame, FALSE, <<>>)
            /\ best_params_' = params_file
            /\ history' = [history EXCEPT !.loaded = TRUE]
    /\ UNCHANGED <<pc, det_grid, params_file, backtestVars, selectVars, dayVars,
                   metricsVars, featureVars, fitVars, walkForwardVars, universeVars, configVars>>

NextDetector ==
    DetectorFitCall \/ DetectorPredictCall \/ DetectorSaveCall \/ DetectorLoadCall

SpecDetector == InitDetector /\ [][NextDetector]_vars

\* What the properties of the detector read off its last call.
LastCallWas(op) == pc = "detector" /\ last_call.op = op
\* The parameters a detector constructed afresh holds after fit(frame).
FreshFit(frame) == DetectorFit(det_grid, <<>>, frame)

\* C12 (as claimed): No fitted state leaks between fits.  After any sequence
\* of fit calls on one detector, the stored parameters depend only on the
\* data and grid of the most recent fit: they are those a fresh detector
\* holds after that fit, and none when that fit found no combination with
\* trades.
C12_NoFittedStateLeak ==
    LastCallWas("fit") => best_params_ = FreshFit(last_call.data)

\* C12, the part that holds: a fit that finds a combination with trades
\* leaves the parameters a fresh detector would hold.
C12_FreshWhenTradesFound ==
    (LastCallWas("fit") /\ FreshFit(last_call.data) # <<>>)
        => best_params_ = FreshFit(last_call.data)

\* C13 (as claimed): Predict requires a successful fit.  In every reachable
\* state of a detector in which no fit call has yet selected a combination,
\* predict raises an error and returns no series; after a fit that selected
\* one, predict returns a boolean series as long as its input, computed with
\* the stored window and k_low.
C13_PredictRequiresFit ==
    LastCallWas("predict") =>
        /\ ~history.fit_selected => (last_call.raised /\ last_call.result = <<>>)
        /\ history.fit_selected =>
              /\ ~last_call.raised
              /\ Len(last_call.result) = Len(last_call.data.Open)
              /\ \A t \in 1..Len(last_call.result) : last_call.result[t] \in BOOLEAN
              /\ last_call.result
                    = EngineAddGapZSignal(last_call.data, best_params_[1].window,
                                          best_params_[1].k_low).signal_gapz

\* C13 (amended): as long as no fit call has selected a combination and
\* load has installed none, predict raises an error and returns no series;
\* after a fit that selected one, predict returns a boolean series as long
\* as its input, computed with the stored window and k_low.
C13_PredictRequiresFitOrLoad ==
    LastCallWas("predict") =>
        /\ (~history.fit_selected /\ ~history.loaded)
              => (last_call.raised /\ last_call.result = <<>>)
        /\ history.fit_selected =>
              /\ ~last_call.raised
              /\ Len(last_call.result) = Len(last_call.data.Open)
              /\ \A t \in 1..Len(last_call.result) : last_call.result[t] \in BOOLEAN
              /\ last_call.result
                    = EngineAddGapZSignal(last_call.data, best_params_[1].window,
                                          best_params_[1].k_low).signal_gapz

\* C13 witness: predict raises on a detector whose every fit found no
\* trades.
C13_RaisedAfterFruitlessFit ==
    /\ LastCallWas("predict") /\ last_call.raised
    /\ history.fitted /\ ~history.fit_selected /\ ~history.loaded

-----------------------------------------------------------------------------
(* src/walk_forward.py: create_walk_forward_splits.  A date is             *)
(* [year, month, day] in the proleptic Gregorian calendar of datetime.date. *)

IsLeap(year) == (year % 4 = 0 /\ year % 100 # 0) \/ year % 400 = 0

DaysInMonth(year, month) ==
    IF month = 2 THEN (IF IsLeap(year) THEN 29 ELSE 28)
    ELSE IF month \in {4, 6, 9, 11} THEN 30
    ELSE 31

\* date + relativedelta(months = months): the month is moved, and a day past
\* the end of the month it lands in becomes that month's last day.
AddMonths(date, months) ==
    LET total == date.year * 12 + (date.month - 1) + months
        year  == total \div 12
        month == (total % 12) + 1
        last  == DaysInMonth(year, month)
    IN  [year |-> year, month |-> month,
         day |-> IF date.day > last THEN last ELSE date.day]

\* date - relativedelta(days = 1)
MinusOneDay(date) ==
    IF date.day > 1 THEN [date EXCEPT !.day = @ - 1]
    ELSE IF date.month > 1
         THEN [year |-> date.year, month |-> date.month - 1,
               day |-> DaysInMonth(date.year, date.month - 1)]
         ELSE [year |-> date.year - 1, month |-> 12, day |-> 31]

\* d1 <= d2 on dates
DateLeq(d1, d2) ==
    \/ d1.year < d2.year
    \/ d1.year = d2.year /\ d1.month < d2.month
    \/ d1.year = d2.year /\ d1.month = d2.month /\ d1.day <= d2.day

\* WalkForwardSplit(is_start, is_end, oos_start, oos_end) for the cursor at
\* current_date.
SplitAt(current_date, is_months, oos_months) ==
    LET oos_start == AddMonths(current_date, is_months)
    IN  [is_start_date  |-> current_date,
         is_end_date    |-> MinusOneDay(AddMonths(current_date, is_months)),
         oos_start_date |-> oos_start,
         oos_end_date   |-> MinusOneDay(AddMonths(oos_start, oos_months))]

\* Mutation of SplitFits: only the in-sample window has to fit.
SplitFitsInSample(current_date, is_months, oos_months, train_end) ==
    DateLeq(AddMonths(current_date, is_months), train_end)

\* The condition of the while loop.
SplitFits(current_date, is_months, oos_months, train_end) ==
    DateLeq(AddMonths(current_date, is_months + oos_months), train_end)

-----------------------------------------------------------------------------
(* Inputs of create_walk_forward_splits.                                   *)

\* First dates: the first of January, the last of December, and the leap
\* day of a year four and of a year eight years before a century year that
\* is not a leap year.
StartDates ==
    {[year |-> 2010, month |-> 1, day |-> 1],
     [year |-> 2011, month |-> 12, day |-> 31],
     [year |-> 2012, month |-> 2, day |-> 29],
     [year |-> 2092, month |-> 2, day |-> 29]}

\* The period ends 0..MaxSpanYears years after the year it starts in: on the
\* first of January, on the 28th of February, or on the day of the year it
\* started on.
EndDates(start) ==
    {[year |-> start.year + span, month |-> 1, day |-> 1] : span \in 0..MaxSpanYears}
    \cup {[year |-> start.year + span, month |-> 2, day |-> 28] : span \in 0..MaxSpanYears}
    \cup {AddMonths(start, 12 * span) : span \in 0..MaxSpanYears}

\* More splits than any period of MaxSpanYears holds when the cursor advances.
MaxSplits == MaxSpanYears + 1

WindowYears == {1, 2, 3, 4, 8}
HoldoutYears == {1, 2}
WalkForwardConfigs ==
    [is_years : WindowYears, oos_years : WindowYears, holdout_years : HoldoutYears]

InitWalkForward ==
    /\ pc = "create_walk_forward_splits"
    /\ start_date \in StartDates
    /\ end_date \in EndDates(start_date)
    /\ wf_config \in WalkForwardConfigs
    /\ train_end_date = <<>>
    /\ wf_current_date = <<>>
    /\ splits = <<>>
    /\ BacktestIdle /\ SelectIdle /\ DayIdle /\ MetricsIdle /\ FeaturesIdle /\ FitIdle
    /\ DetectorIdle /\ UniverseIdle /\ ConfigIdle

\* The statements before the loop.
CreateSplitsStart ==
    /\ pc = "create_walk_forward_splits"
    /\ train_end_date' = AddMonths(end_date, -(wf_config.holdout_years * 12))
    /\ wf_current_date' = start_date
    /\ splits' = <<>>
    /\ pc' = "wf_loop"
    /\ UNCHANGED <<start_date, end_date, wf_config, backtestVars, selectVars, dayVars,
                   metricsVars, featureVars, fitVars, detectorVars, universeVars, configVars>>

\* One pass of the while loop.  The list is kept up to MaxSplits entries: a
\* loop that advances by a year or more never has as many.
CreateSplitsAppend ==
    /\ pc = "wf_loop"
    /\ SplitFits(wf_current_date, wf_config.is_years * 12, wf_config.oos_years * 12,
                 train_end_date)
    /\ splits' = IF Len(splits) < MaxSplits
                 THEN Append(splits, SplitAt(wf_current_date, wf_config.is_years * 12,
                                             wf_config.oos_years * 12))
                 ELSE splits
    /\ wf_current_date' = AddMonths(wf_current_date, wf_config.oos_years * 12)
    /\ UNCHANGED <<pc, start_date, end_date, wf_config, train_end_date, backtestVars,
                   selectVars, dayVars, metricsVars, featureVars, fitVars, detectorVars, universeVars, configVars>>

\* The loop ends and splits is returned.
CreateSplitsReturn ==
    /\ pc = "wf_loop"
    /\ ~SplitFits(wf_current_date, wf_config.is_years * 12, wf_config.oos_years * 12,
                  train_end_date)
    /\ pc' = "wf_returned"
    /\ UNCHANGED <<walkForwardVars, backtestVars, selectVars, dayVars, metricsVars,
                   featureVars, fitVars, detectorVars, universeVars, configVars>>

NextWalkForward == CreateSplitsStart \/ CreateSplitsAppend \/ CreateSplitsReturn

SpecWalkForward == InitWalkForward /\ [][NextWalkForward]_vars

\* The walk-forward check of _validate_config: is_years + oos_years > 0.
WalkForwardYearsValid(wf) == wf.is_years + wf.oos_years > 0

\* The configurations _validate_config lets through, with year counts from
\* zero on.
AcceptedYears == 0..2
AcceptedConfigs ==
    {wf \in [is_years : AcceptedYears, oos_years : AcceptedYears, holdout_years : {1}] :
        WalkForwardYearsValid(wf)}

InitWalkForwardAccepted ==
    /\ pc = "create_walk_forward_splits"
    /\ start_date \in StartDates
    /\ end_date \in EndDates(start_date)
    /\ wf_config \in AcceptedConfigs
    /\ train_end_date = <<>>
    /\ wf_current_date = <<>>
    /\ splits = <<>>
    /\ BacktestIdle /\ SelectIdle /\ DayIdle /\ MetricsIdle /\ FeaturesIdle /\ FitIdle
    /\ DetectorIdle /\ UniverseIdle /\ ConfigIdle

\* The call runs on: a statement that can be executed is executed.
SpecWalkForwardLive ==
    InitWalkForwardAccepted /\ [][NextWalkForward]_vars /\ WF_vars(NextWalkForward)

\* What the properties of the splits read off the list.
SplitsBuilt == pc \in {"wf_loop", "wf_returned"}
DayAfter(date) ==
    IF date.day < DaysInMonth(date.year, date.month) THEN [date EXCEPT !.day = @ + 1]
    ELSE IF date.month < 12 THEN [year |-> date.year, month |-> date.month + 1, day |-> 1]
    ELSE [year |-> date.year + 1, month |-> 1, day |-> 1]
Earlier(d1, d2) == DateLeq(d1, d2) /\ d1 # d2
WellFormed(split) ==
    /\ DateLeq(split.is_start_date, split.is_end_date)
    /\ Earlier(split.is_end_date, split.oos_start_date)
    /\ DateLeq(split.oos_start_date, split.oos_end_date)
    /\ split.oos_start_date = DayAfter(split.is_end_date)

\* C20 (as claimed): Walk-forward non-overlap.  In the list of
\* create_walk_forward_splits the out-of-sample window of split k+1 starts
\* strictly after the out-of-sample window of split k ends, is_start is
\* strictly increasing, and in every split is_start <= is_end < oos_start <=
\* oos_end with oos_start the day after is_end.
C20_WalkForwardNonOverlap ==
    SplitsBuilt =>
        /\ \A k \in 1..(Len(splits) - 1) :
              /\ Earlier(splits[k].oos_end_date, splits[k + 1].oos_start_date)
              /\ Earlier(splits[k].is_start_date, splits[k + 1].is_start_date)
        /\ \A k \in 1..Len(splits) : WellFormed(splits[k])

\* C20, the part that holds: every split is well formed, is_start is
\* strictly increasing, and no out-of-sample window starts before the one
\* before it ends; it may start on the very day the other ends.
C20_SplitsOrdered ==
    SplitsBuilt =>
        /\ \A k \in 1..(Len(splits) - 1) :
              /\ DateLeq(splits[k].oos_end_date, splits[k + 1].oos_start_date)
              /\ Earlier(splits[k].is_start_date, splits[k + 1].is_start_date)
        /\ \A k \in 1..Len(splits) : WellFormed(splits[k])

\* What the properties of the holdout read off a returned call.
SplitsReturned == pc = "wf_returned"
IsMonths == wf_config.is_years * 12
OosMonths == wf_config.oos_years * 12
TrainEnd == AddMonths(end_date, -(wf_config.holdout_years * 12))
\* The cursor after k advances of oos_years from start_date.
RECURSIVE CursorAfter(_)
CursorAfter(k) ==
    IF k = 0 THEN start_date ELSE AddMonths(CursorAfter(k - 1), OosMonths)
\* start_date + k * oos_years, in one step.
StartPlus(k) == AddMonths(start_date, k * OosMonths)
WindowFitsFrom(cursor) == DateLeq(AddMonths(cursor, IsMonths + OosMonths), TrainEnd)
LeapDayStart == start_date.month = 2 /\ start_date.day = 29

\* C21 (as claimed): Holdout is never used.  Every split has oos_end on or
\* before train_end = end - holdout_years, split k starts at
\* start + k * oos_years, and the list has a split for every k whose full
\* IS+OOS window ends on or before train_end and for no other k.
C21_HoldoutNeverUsed ==
    SplitsReturned =>
        /\ \A k \in 1..Len(splits) :
              /\ DateLeq(splits[k].oos_end_date, TrainEnd)
              /\ splits[k].is_start_date = StartPlus(k - 1)
        /\ \A k \in 0..MaxSpanYears : (k < Len(splits)) <=> WindowFitsFrom(StartPlus(k))

\* C21 (amended): every split has oos_end on or before train_end, split k
\* starts at the cursor reached from start by k advances of oos_years (which
\* is start + k * oos_years unless start is a leap day), and the list has a
\* split for every k for which that cursor plus is_years + oos_years is on or
\* before train_end and for no other k.
C21_HoldoutNeverUsedByCursor ==
    SplitsReturned =>
        /\ train_end_date = TrainEnd
        /\ \A k \in 1..Len(splits) :
              /\ DateLeq(splits[k].oos_end_date, TrainEnd)
              /\ splits[k].is_start_date = CursorAfter(k - 1)
              /\ ~LeapDayStart => splits[k].is_start_date = StartPlus(k - 1)
        /\ \A k \in 0..MaxSpanYears : (k < Len(splits)) <=> WindowFitsFrom(CursorAfter(k))

\* C21 witness: several splits, the window of the last one ending on
\* train_end itself.
C21_LastWindowEndsOnTrainEnd ==
    /\ SplitsReturned
    /\ Len(splits) >= 3
    /\ AddMonths(splits[Len(splits)].is_start_date, IsMonths + OosMonths) = TrainEnd

\* The span from start_date to end_date against is_years + oos_years +
\* holdout_years.
TotalMonths == IsMonths + OosMonths + wf_config.holdout_years * 12
SpanShorter == DateLeq(end_date, AddMonths(start_date, TotalMonths))
                   /\ end_date # AddMonths(start_date, TotalMonths)
SpanExact == end_date = AddMonths(start_date, TotalMonths)

\* C22 (as claimed): Zero splits is a value, not an error.  When the span
\* from start to end is shorter than is_years + oos_years + holdout_years the
\* call returns the empty list; when it is exactly that long the call returns
\* exactly one split.
C22_ZeroSplitsIsAValue ==
    SplitsReturned =>
        /\ SpanShorter => splits = <<>>
        /\ SpanExact => Len(splits) = 1

\* C22, the part that holds: the same for a period that does not start on a
\* leap day.
C22_ZeroSplitsOffLeapDay ==
    (SplitsReturned /\ ~LeapDayStart) =>
        /\ SpanShorter => splits = <<>>
        /\ SpanExact => Len(splits) = 1

\* C29 (as claimed): Walk-forward generation terminates.  For every start,
\* end and configuration accepted by _validate_config, oos_years = 0 with
\* is_years > 0 included, create_walk_forward_splits reaches its return.
C29_SplitsTerminate == <>(pc = "wf_returned")

\* C29, the part that holds: the call returns whenever oos_years is positive.
C29_SplitsTerminateWhenAdvancing ==
    (pc = "create_walk_forward_splits" /\ wf_config.oos_years > 0) ~> (pc = "wf_returned")

-----------------------------------------------------------------------------
(* src/universe.py and src/core/universe.py (select_universe)              *)
(*                                                                         *)
(* A frame is a daily price history: the date of its first row and its    *)
(* rows in date order, one row a day.  Consecutive rows with the same      *)
(* Close and Volume are written as one run [days, Close, Volume], so that  *)
(* a history of some hundred rows, which the 252-day lookback needs, is a  *)
(* short sequence.  Dates are day numbers.                                 *)

\* len(data)
RECURSIVE NumRows(_)
NumRows(runs) == IF runs = <<>> THEN 0 ELSE Head(runs).days + NumRows(Tail(runs))

\* data.head(n): the first n rows.
RECURSIVE FirstRows(_, _)
FirstRows(runs, n) ==
    IF n <= 0 \/ runs = <<>> THEN <<>>
    ELSE IF Head(runs).days <= n
         THEN <<Head(runs)>> \o FirstRows(Tail(runs), n - Head(runs).days)
         ELSE <<[Head(runs) EXCEPT !.days = n]>>

\* The rows after the first n.
RECURSIVE DropRows(_, _)
DropRows(runs, n) ==
    IF runs = <<>> THEN <<>>
    ELSE IF n <= 0 THEN runs
    ELSE IF Head(runs).days <= n THEN DropRows(Tail(runs), n - Head(runs).days)
         ELSE <<[Head(runs) EXCEPT !.days = @ - n]>> \o Tail(runs)

\* data.tail(n): the last n rows.
TailRows(runs, n) == DropRows(runs, NumRows(runs) - n)

\* data[data.index.date <= t0]
UpToDate(frame, date) == FirstRows(frame.rows, date - frame.start + 1)

\* data['Close'].iloc[-1]
LastClose(runs) == runs[Len(runs)].Close

\* turnover[data['Volume'] > 0], with turnover = data['Close'].abs() * data['Volume']
ValidTurnover(runs) ==
    LET valid == SelectSeq(runs, LAMBDA r : r.Volume > 0)
    IN  [k \in DOMAIN valid |-> [days |-> valid[k].days,
                                 value |-> Abs(valid[k].Close) * valid[k].Volume]]

\* The number of rows of a series whose value is at most v.
RECURSIVE RowsAtMost(_, _)
RowsAtMost(series, v) ==
    IF series = <<>> THEN 0
    ELSE (IF Head(series).value <= v THEN Head(series).days ELSE 0)
         + RowsAtMost(Tail(series), v)

\* The p-th smallest value of a series.
OrderStatistic(series, p) ==
    LET values == {series[k].value : k \in DOMAIN series}
    IN  CHOOSE v \in values :
            /\ RowsAtMost(series, v) >= p
            /\ \A w \in values : w < v => RowsAtMost(series, w) < p

\* Series.median(), of a series that is not empty.
SeriesMedian(series) ==
    LET n == NumRows(series)
    IN  IF n % 2 = 1 THEN RInt(OrderStatistic(series, (n + 1) \div 2))
        ELSE Rat(OrderStatistic(series, n \div 2)
                 + OrderStatistic(series, n \div 2 + 1), 2)

RECURSIVE SeriesSum(_)
SeriesSum(series) ==
    IF series = <<>> THEN 0
    ELSE Head(series).days * Head(series).value + SeriesSum(Tail(series))

\* Series.mean(), of a series that is not empty.
SeriesMean(series) == Rat(SeriesSum(series), NumRows(series))

\* Approximate trading days per year.
TradingDaysPerYear == 252

\* compute_turnover_stats(data, lookback_years)
ComputeTurnoverStats(runs, lookback_years) ==
    LET max_days == lookback_years * TradingDaysPerYear
        looked == IF lookback_years > 0 /\ NumRows(runs) > max_days
                  THEN TailRows(runs, max_days) ELSE runs
        valid_turnover == ValidTurnover(looked)
    IN  IF runs = <<>> \/ valid_turnover = <<>>
        THEN [median_turnover |-> RInt(0), mean_turnover |-> RInt(0), valid_days |-> 0]
        ELSE [median_turnover |-> SeriesMedian(valid_turnover),
              mean_turnover |-> SeriesMean(valid_turnover),
              valid_days |-> NumRows(valid_turnover)]

\* f"{x:.0f}": the nearest integer, a half going to the even one.
FormatNoDecimals(r) ==
    LET q == r.n \div r.d
        twice == 2 * (r.n % r.d)
    IN  IF twice < r.d THEN q
        ELSE IF twice > r.d THEN q + 1
        ELSE IF q % 2 = 0 THEN q ELSE q + 1

\* A reason of exclusion: the wording and the numbers formatted into it.
Reason(wording, numbers) == [wording |-> wording, numbers |-> numbers]

\* The least number of valid trading days a symbol must have.
MinTradingDays == 30

\* max(30, int(self.lookback_years * 252 * 0.7))
MinDaysReq(lookback_years) ==
    Max(MinTradingDays, (lookback_years * TradingDaysPerYear * 7) \div 10)

\* Mutation of ApplyFilters: the turnover check comes before the count of valid days.
ApplyFiltersTurnoverFirst(cfg, runs) ==
    LET stats == ComputeTurnoverStats(runs, cfg.lookback_years)
        min_days_req == MinDaysReq(cfg.lookback_years)
    IN  IF runs = <<>> THEN <<FALSE, Reason("Empty data", <<>>)>>
        ELSE IF LastClose(runs) < cfg.min_price
        THEN <<FALSE, Reason("Price", <<LastClose(runs), cfg.min_price>>)>>
        ELSE IF RLess(stats.median_turnover, RInt(cfg.min_turnover))
        THEN <<FALSE, Reason("Turnover", <<FormatNoDecimals(stats.median_turnover),
                                           cfg.min_turnover>>)>>
        ELSE IF stats.valid_days < min_days_req
        THEN <<FALSE, Reason("Insufficient data", <<stats.valid_days, min_days_req>>)>>
        ELSE <<TRUE, Reason("Passes all filters", <<>>)>>

\* UniverseSelector.apply_filters(symbol, data): (passes_filters, reason)
ApplyFilters(cfg, runs) ==
    LET stats == ComputeTurnoverStats(runs, cfg.lookback_years)
        min_days_req == MinDaysReq(cfg.lookback_years)
    IN  IF runs = <<>> THEN <<FALSE, Reason("Empty data", <<>>)>>
        ELSE IF LastClose(runs) < cfg.min_price
        THEN <<FALSE, Reason("Price", <<LastClose(runs), cfg.min_price>>)>>
        ELSE IF stats.valid_days < min_days_req
        THEN <<FALSE, Reason("Insufficient data", <<stats.valid_days, min_days_req>>)>>
        ELSE IF RLess(stats.median_turnover, RInt(cfg.min_turnover))
        THEN <<FALSE, Reason("Turnover", <<FormatNoDecimals(stats.median_turnover),
                                           cfg.min_turnover>>)>>
        ELSE <<TRUE, Reason("Passes all filters", <<>>)>>

\* UniverseSelector.validate_config: the configuration is accepted.
ValidateConfig(cfg) ==
    /\ ~(cfg.size <= 0)
    /\ ~(cfg.min_turnover < 0)
    /\ ~(cfg.min_price < 0)
    /\ ~(cfg.lookback_years <= 0)

\* [s for s in available_symbols if s not in exclude_symbols]
CandidateSymbols(available, exclude_symbols) ==
    SelectSeq(available, LAMBDA s : s \notin exclude_symbols)

\* Mutation of RankInsert: an entry goes ahead of the entries it ties with.
RankInsertAheadOfTies(ranked, entry) ==
    LET ahead == {k \in DOMAIN ranked :
                     RLess(entry.stats.median_turnover, ranked[k].stats.median_turnover)}
        n == Cardinality(ahead)
    IN  SubSeq(ranked, 1, n) \o <<entry>> \o SubSeq(ranked, n + 1, Len(ranked))

\* The place of one entry in sorted(..., key=median_turnover, reverse=True): after
\* every entry whose key is at least its own, the sort being stable.
RankInsert(ranked, entry) ==
    LET ahead == {k \in DOMAIN ranked :
                     RLeq(entry.stats.median_turnover, ranked[k].stats.median_turnover)}
        n == Cardinality(ahead)
    IN  SubSeq(ranked, 1, n) \o <<entry>> \o SubSeq(ranked, n + 1, Len(ranked))

\* sorted(symbol_stats.items(), key=lambda item: item[1]["median_turnover"], reverse=True)
RECURSIVE SortedSymbols(_)
SortedSymbols(entries) ==
    IF entries = <<>> THEN <<>>
    ELSE RankInsert(SortedSymbols(SubSeq(entries, 1, Len(entries) - 1)),
                    entries[Len(entries)])

\* sorted_symbols[:size], each entry with its rank.
SelectedWithStats(sorted_symbols, size) ==
    [i \in 1..Min(size, Len(sorted_symbols)) |->
        [symbol |-> sorted_symbols[i].symbol,
         stats |-> [median_turnover |-> sorted_symbols[i].stats.median_turnover,
                    mean_turnover |-> sorted_symbols[i].stats.mean_turnover,
                    valid_days |-> sorted_symbols[i].stats.valid_days,
                    rank |-> i]]]

\* _compute_turnover(data, lookback_days) of src/core/universe.py: the median of the
\* positive turnovers of the last lookback_days rows; nan is the median of no value.
CoreComputeTurnover(runs, lookback_days) ==
    LET tail == TailRows(runs, lookback_days)
        positive == SelectSeq([k \in DOMAIN tail |->
                                  [days |-> tail[k].days,
                                   value |-> tail[k].Close * tail[k].Volume]],
                              LAMBDA r : r.value > 0)
    IN  IF runs = <<>> \/ NumRows(runs) * 10 < lookback_days * 7
        THEN [nan |-> FALSE, median_turnover |-> RInt(0)]
        ELSE IF positive = <<>> THEN [nan |-> TRUE, median_turnover |-> RInt(0)]
        ELSE [nan |-> FALSE, median_turnover |-> SeriesMedian(positive)]

\* a < b on floats: false when either is nan.
FloatLess(a, b) == ~a.nan /\ ~b.nan /\ RLess(a.median_turnover, b.median_turnover)

\* The loop of select_universe of src/core/universe.py: the qualified symbols with
\* their turnover, in the order of the keys of all_data.
RECURSIVE CoreQualified(_, _, _, _)
CoreQualified(keys, frames, cfg, date) ==
    IF keys = <<>> THEN <<>>
    ELSE LET symbol == Head(keys)
             rest == CoreQualified(Tail(keys), frames, cfg, date)
             data_at_t0 == UpToDate(frames[symbol][1], date)
             median_turnover ==
                 CoreComputeTurnover(data_at_t0, cfg.lookback_years * TradingDaysPerYear)
         IN  IF symbol \in cfg.exclude_symbols THEN rest
             ELSE IF data_at_t0 = <<>> THEN rest
             ELSE IF LastClose(data_at_t0) < cfg.min_price THEN rest
             ELSE IF FloatLess(median_turnover, [nan |-> FALSE,
                                                 median_turnover |-> RInt(cfg.min_turnover)])
             THEN rest
             ELSE <<[symbol |-> symbol, nan |-> median_turnover.nan,
                     stats |-> [median_turnover |-> median_turnover.median_turnover]]>>
                  \o rest

\* sorted(qualified_symbols.items(), key=lambda item: item[1], reverse=True).  With a
\* nan among the keys the comparisons are not an order and the arrangement the sort
\* leaves is not specified: any one of them.
CoreSortedOutcomes(entries) ==
    IF \E k \in DOMAIN entries : entries[k].nan
    THEN {[k \in DOMAIN entries |-> entries[p[k]]] : p \in RowPermutations(Len(entries))}
    ELSE {SortedSymbols(entries)}

\* Symbols, runs of rows, frames and configurations of the model.
UniverseSymbols == {"A.NS", "B.NS", "C.NS"}
Liquid == [days |-> 200, Close |-> 100, Volume |-> 2000]
Mid == [days |-> 200, Close |-> 100, Volume |-> 1000]
Dead == [days |-> 200, Close |-> 100, Volume |-> 0]
Penny == [days |-> 200, Close |-> 5, Volume |-> 2000]
Runs == {Liquid, Mid, Dead, Penny}
EmptyFrame == [start |-> 1, rows |-> <<>>]
Frames ==
    {[start |-> 1, rows |-> <<a>>] : a \in Runs}
    \cup {[start |-> 1, rows |-> <<a, b>>] : a \in Runs, b \in {Liquid, Dead, Penny}}
    \cup {[start |-> 201, rows |-> <<Liquid>>], EmptyFrame}
\* A symbol maps to <<>> when load_snapshots returned nothing for it.
Loaded == {<<>>} \cup {<<f>> : f \in Frames}
ThirdLoaded == {<<>>, <<[start |-> 1, rows |-> <<Mid>>]>>}
FreezeDates == {<<>>, <<100>>, <<200>>}
UniverseConfigs ==
    [size : {1, 2}, min_turnover : {0, 150000}, min_price : {10},
     lookback_years : {1}, exclude_symbols : {{}, {"A.NS"}}]
    \cup [size : {0}, min_turnover : {0}, min_price : {10},
          lookback_years : {1}, exclude_symbols : {{}}]
SymbolOrders ==
    {<<"A.NS", "B.NS", "C.NS">>, <<"B.NS", "A.NS", "C.NS">>, <<"C.NS", "B.NS", "A.NS">>}

InitUniverse ==
    /\ pc = "select_universe"
    /\ uni_config \in UniverseConfigs
    /\ t0 \in FreezeDates
    /\ available_symbols \in SymbolOrders
    /\ snapshots \in {m \in [UniverseSymbols -> Loaded] : m["C.NS"] \in ThirdLoaded}
    /\ candidate_symbols = <<>>
    /\ next_candidate = 0
    /\ symbol_stats = <<>>
    /\ detailed_exclusions = <<>>
    /\ processing_stats = <<>>
    /\ universe_out = <<>>
    /\ BacktestIdle /\ SelectIdle /\ DayIdle /\ MetricsIdle /\ FeaturesIdle /\ FitIdle
    /\ DetectorIdle /\ WalkForwardIdle /\ ConfigIdle

\* select_universe of src/universe.py up to its loop: the configuration is validated,
\* the exclusions are removed and the snapshots are loaded.
SelectUniverseLoad ==
    /\ pc = "select_universe"
    /\ IF ~ValidateConfig(uni_config)
       THEN /\ pc' = "universe_raised"
            /\ universe_out' = [kind |-> "raised", error |-> "invalid configuration"]
            /\ UNCHANGED <<candidate_symbols, next_candidate, processing_stats>>
       ELSE IF \A s \in UniverseSymbols : snapshots[s] = <<>>
       THEN /\ pc' = "universe_raised"
            /\ universe_out' = [kind |-> "raised", error |-> "Cannot select universe"]
            /\ candidate_symbols' =
                   CandidateSymbols(available_symbols, uni_config.exclude_symbols)
            /\ UNCHANGED <<next_candidate, processing_stats>>
       ELSE /\ pc' = "universe_loop"
            /\ candidate_symbols' =
                   CandidateSymbols(available_symbols, uni_config.exclude_symbols)
            /\ next_candidate' = 1
            /\ processing_stats' =
                   [total_candidates |-> Len(candidate_symbols'), missing_data |-> 0,
                    empty_data |-> 0, filtered_by_price |-> 0, filtered_by_turnover |-> 0,
                    filtered_by_days |-> 0, qualified_symbols |-> 0,
                    selected_symbols |-> <<>>]
            /\ UNCHANGED universe_out
    /\ UNCHANGED <<uni_config, t0, available_symbols, snapshots, symbol_stats,
                   detailed_exclusions>>
    /\ UNCHANGED <<backtestVars, selectVars, dayVars, metricsVars, featureVars, fitVars,
                   detectorVars, walkForwardVars, configVars>>

\* One pass of the loop over candidate_symbols: what becomes of one symbol.
CandidateOutcome(symbol, frames, cfg, freeze) ==
    LET loaded == frames[symbol]
        rows_at_t0 == IF freeze = <<>> THEN loaded[1].rows ELSE UpToDate(loaded[1], freeze[1])
        filtered == ApplyFilters(cfg, rows_at_t0)
    IN  IF loaded = <<>>
        THEN [passes |-> FALSE, reason |-> Reason("No data available", <<>>),
              counter |-> "missing_data"]
        ELSE IF loaded[1].rows = <<>>
        THEN [passes |-> FALSE, reason |-> Reason("Empty data", <<>>),
              counter |-> "empty_data"]
        ELSE IF rows_at_t0 = <<>>
        THEN [passes |-> FALSE, reason |-> Reason("No data up to t0", freeze),
              counter |-> "none"]
        ELSE IF filtered[1]
        THEN [passes |-> TRUE, reason |-> filtered[2], counter |-> "qualified_symbols",
              stats |-> ComputeTurnoverStats(rows_at_t0, cfg.lookback_years)]
        ELSE [passes |-> FALSE, reason |-> filtered[2],
              counter |-> IF filtered[2].wording = "Price" THEN "filtered_by_price"
                          ELSE IF filtered[2].wording = "Turnover"
                          THEN "filtered_by_turnover"
                          ELSE "filtered_by_days"]

\* The counters of processing_stats after one more symbol.
Counted(stats, counter) ==
    [f \in DOMAIN stats |-> IF f = counter THEN stats[f] + 1 ELSE stats[f]]

UniverseCandidate ==
    /\ pc = "universe_loop"
    /\ next_candidate <= Len(candidate_symbols)
    /\ LET symbol == candidate_symbols[next_candidate]
           outcome == CandidateOutcome(symbol, snapshots, uni_config, t0)
       IN  /\ symbol_stats' =
                  IF outcome.passes
                  THEN Append(symbol_stats, [symbol |-> symbol, stats |-> outcome.stats])
                  ELSE symbol_stats
           /\ detailed_exclusions' =
                  IF outcome.passes THEN detailed_exclusions
                  ELSE Append(detailed_exclusions,
                              [symbol |-> symbol, reason |-> outcome.reason])
           /\ processing_stats' = Counted(processing_stats, outcome.counter)
    /\ next_candidate' = next_candidate + 1
    /\ UNCHANGED <<pc, uni_config, t0, available_symbols, snapshots, candidate_symbols,
                   universe_out>>
    /\ UNCHANGED <<backtestVars, selectVars, dayVars, metricsVars, featureVars, fitVars,
                   detectorVars, walkForwardVars, configVars>>

\* select_universe of src/universe.py after its loop: the qualified symbols are
\* ranked, the first size of them are selected, and the call returns them with the
\* metadata, or raises when none is selected.
UniverseRank ==
    /\ pc = "universe_loop"
    /\ next_candidate > Len(candidate_symbols)
    /\ LET sorted_symbols == SortedSymbols(symbol_stats)
           selected_symbols_with_stats == SelectedWithStats(sorted_symbols, uni_config.size)
           selected_symbols == [i \in DOMAIN selected_symbols_with_stats |->
                                   selected_symbols_with_stats[i].symbol]
       IN  /\ processing_stats' =
                  [processing_stats EXCEPT !.selected_symbols = selected_symbols]
           /\ IF selected_symbols = <<>>
              THEN /\ pc' = "universe_raised"
                   /\ universe_out' =
                          [kind |-> "raised",
                           error |-> "No stocks met the universe selection criteria."]
              ELSE /\ pc' = "universe_returned"
                   /\ universe_out' =
                          [kind |-> "returned",
                           selected_symbols |-> selected_symbols,
                           selection_date |-> t0,
                           processing_stats |-> processing_stats',
                           symbol_details |-> selected_symbols_with_stats,
                           detailed_exclusions |-> detailed_exclusions]
    /\ UNCHANGED <<uni_config, t0, available_symbols, snapshots, candidate_symbols,
                   next_candidate, symbol_stats, detailed_exclusions>>
    /\ UNCHANGED <<backtestVars, selectVars, dayVars, metricsVars, featureVars, fitVars,
                   detectorVars, walkForwardVars, configVars>>

\* The keys of all_data, in the order of the mapping.
LoadedKeys(order, frames) == SelectSeq(order, LAMBDA s : frames[s] # <<>>)

\* select_universe(all_data, config, t0) of src/core/universe.py.
CoreSelectUniverse ==
    /\ pc = "select_universe"
    /\ t0 # <<>>
    /\ LET qualified_symbols ==
               CoreQualified(LoadedKeys(available_symbols, snapshots), snapshots,
                             uni_config, t0[1])
       IN  IF qualified_symbols = <<>>
           THEN /\ pc' = "core_raised"
                /\ universe_out' =
                       [kind |-> "raised",
                        error |-> "No stocks met the universe selection criteria."]
           ELSE /\ pc' = "core_returned"
                /\ \E sorted_symbols \in CoreSortedOutcomes(qualified_symbols) :
                       universe_out' =
                           [kind |-> "returned",
                            selected_symbols |->
                                [i \in 1..Min(uni_config.size, Len(sorted_symbols)) |->
                                    sorted_symbols[i].symbol]]
    /\ UNCHANGED <<uni_config, t0, available_symbols, snapshots, candidate_symbols,
                   next_candidate, symbol_stats, detailed_exclusions, processing_stats>>
    /\ UNCHANGED <<backtestVars, selectVars, dayVars, metricsVars, featureVars, fitVars,
                   detectorVars, walkForwardVars, configVars>>

NextUniverse ==
    \/ SelectUniverseLoad
    \/ UniverseCandidate
    \/ UniverseRank
    \/ CoreSelectUniverse

SpecUniverse == InitUniverse /\ [][NextUniverse]_vars

\* The rows of a symbol dated up to the freeze date; none when nothing was loaded.
FrozenRows(symbol) ==
    IF snapshots[symbol] = <<>> THEN <<>>
    ELSE IF t0 = <<>> THEN snapshots[symbol][1].rows
    ELSE UpToDate(snapshots[symbol][1], t0[1])
FrozenStats(symbol) == ComputeTurnoverStats(FrozenRows(symbol), uni_config.lookback_years)
FrozenMedian(symbol) == FrozenStats(symbol).median_turnover
\* The checks of the selection, in their order; 0 when the symbol passes them all.
FirstFailedCheck(symbol) ==
    IF FrozenRows(symbol) = <<>> THEN 1
    ELSE IF LastClose(FrozenRows(symbol)) < uni_config.min_price THEN 2
    ELSE IF FrozenStats(symbol).valid_days < MinDaysReq(uni_config.lookback_years) THEN 3
    ELSE IF RLess(FrozenMedian(symbol), RInt(uni_config.min_turnover)) THEN 4
    ELSE 0
\* The candidates that pass every check.
Qualifying ==
    {s \in UniverseSymbols : s \notin uni_config.exclude_symbols /\ FirstFailedCheck(s) = 0}
SelectedSet == {universe_out.selected_symbols[k] : k \in DOMAIN universe_out.selected_symbols}
\* The selected list is the top of the ranking of the qualifying symbols.
TopOfRanking ==
    LET selected == universe_out.selected_symbols
    IN  /\ Len(selected) <= uni_config.size
        /\ \A j, k \in DOMAIN selected : selected[j] = selected[k] => j = k
        /\ SelectedSet \subseteq Qualifying
        /\ \A k \in 1..(Len(selected) - 1) :
               RLeq(FrozenMedian(selected[k + 1]), FrozenMedian(selected[k]))
        /\ \A k \in DOMAIN selected : \A s \in Qualifying \ SelectedSet :
               RLeq(FrozenMedian(s), FrozenMedian(selected[k]))
        /\ Cardinality(Qualifying) <= uni_config.size => SelectedSet = Qualifying

\* C23: Universe ranking.  The list select_universe returns, of src/universe.py and
\* of src/core/universe.py alike, has at most size symbols, none of them excluded and
\* none failing a check, in order of non-increasing median turnover, each with a
\* median turnover at least that of every qualifying symbol left out; when no more
\* than size symbols qualify all of them are returned.
C23_UniverseRanking == pc \in {"universe_returned", "core_returned"} => TopOfRanking

\* C23, the part that holds: the list returned by select_universe of src/universe.py.
C23_RankingOfUniverseSelector == pc = "universe_returned" => TopOfRanking

\* C23: select_universe of src/core/universe.py has returned a symbol none of whose
\* rows up to the freeze date has any volume.
C23_DeadSymbolSelected ==
    /\ pc = "core_returned"
    /\ \E s \in SelectedSet : ValidTurnover(FrozenRows(s)) = <<>>

\* The symbols in ascending order of name.
ByName == <<"A.NS", "B.NS", "C.NS">>
NameBefore(a, b) == \E j, k \in DOMAIN ByName : ByName[j] = a /\ ByName[k] = b /\ j < k
\* Every order in which the symbols can be supplied.
AllOrders ==
    {[k \in 1..3 |-> ByName[p[k]]] : p \in RowPermutations(3)}
\* What select_universe of src/universe.py selects, with ranks, when the symbols
\* are supplied in the given order.
RECURSIVE QualifiedFrom(_, _)
QualifiedFrom(candidates, frames) ==
    IF candidates = <<>> THEN <<>>
    ELSE LET outcome == CandidateOutcome(Head(candidates), frames, uni_config, t0)
         IN  (IF outcome.passes
              THEN <<[symbol |-> Head(candidates), stats |-> outcome.stats]>>
              ELSE <<>>)
             \o QualifiedFrom(Tail(candidates), frames)
SelectionOf(order, frames) ==
    SelectedWithStats(
        SortedSymbols(QualifiedFrom(CandidateSymbols(order, uni_config.exclude_symbols),
                                    frames)),
        uni_config.size)
SelectionFor(order) == SelectionOf(order, snapshots)
\* Two qualifying symbols have the same median turnover.
TieAmongQualifying ==
    \E a, b \in Qualifying : a # b /\ FrozenMedian(a) = FrozenMedian(b)

\* C24: Universe tie-break determinism.  Selected symbols with equal median turnover
\* are in ascending order of name, in the list of src/universe.py and in the list of
\* src/core/universe.py, and in whatever order the symbols are supplied
\* select_universe returns the same symbols in the same order with the same ranks.
C24_TieBreakByName ==
    /\ pc \in {"universe_returned", "core_returned"} =>
           \A k \in 1..(Len(universe_out.selected_symbols) - 1) :
               FrozenMedian(universe_out.selected_symbols[k])
                   = FrozenMedian(universe_out.selected_symbols[k + 1])
               => NameBefore(universe_out.selected_symbols[k],
                             universe_out.selected_symbols[k + 1])
    /\ pc = "universe_returned" =>
           \A order \in AllOrders : SelectionFor(order) = universe_out.symbol_details

\* C24, the part that holds: when no two qualifying symbols tie, the selection of
\* src/universe.py does not depend on the order in which the symbols are supplied.
C24_OrderFreeWithoutTies ==
    (pc = "universe_returned" /\ ~TieAmongQualifying) =>
        \A order \in AllOrders : SelectionFor(order) = universe_out.symbol_details

\* C24: two tied symbols were selected and the later name is ranked first.
C24_TiedSymbolsInSuppliedOrder ==
    /\ pc = "universe_returned"
    /\ universe_out.selected_symbols = <<"B.NS", "A.NS">>
    /\ FrozenMedian("A.NS") = FrozenMedian("B.NS")

\* The exclusions select_universe of src/universe.py records for the given frames.
RECURSIVE ExclusionsFrom(_, _)
ExclusionsFrom(candidates, frames) ==
    IF candidates = <<>> THEN <<>>
    ELSE LET outcome == CandidateOutcome(Head(candidates), frames, uni_config, t0)
         IN  (IF outcome.passes THEN <<>>
              ELSE <<[symbol |-> Head(candidates), reason |-> outcome.reason]>>)
             \o ExclusionsFrom(Tail(candidates), frames)
\* The rows of what was loaded for a symbol that are dated up to the freeze date.
RowsUpToFreeze(loaded) == IF loaded = <<>> THEN <<>> ELSE UpToDate(loaded[1], t0[1])
\* The inputs that differ from snapshots in one symbol, and for that symbol only in
\* rows dated after the freeze date.
SameUpToFreeze ==
    UNION {{[snapshots EXCEPT ![s] = other] :
               other \in {l \in Loaded : RowsUpToFreeze(l) = RowsUpToFreeze(snapshots[s])}} :
           s \in UniverseSymbols}
\* The lists select_universe of src/core/universe.py can return for the given frames.
CoreSelectionsOf(frames) ==
    LET qualified == CoreQualified(LoadedKeys(available_symbols, frames), frames,
                                   uni_config, t0[1])
    IN  {[i \in 1..Min(uni_config.size, Len(sorted)) |-> sorted[i].symbol] :
            sorted \in CoreSortedOutcomes(qualified)}
\* Symbols, ranks and statistics are those of every input that is the same up to
\* the freeze date.
SelectionFrozen ==
    /\ (pc = "universe_returned" /\ t0 # <<>>) =>
           \A other \in SameUpToFreeze :
               SelectionOf(available_symbols, other) = universe_out.symbol_details
    /\ pc = "core_returned" =>
           \A other \in SameUpToFreeze :
               universe_out.selected_symbols \in CoreSelectionsOf(other)

\* C25: No look-ahead in universe selection.  For a freeze date t0, an input that
\* agrees with the one given on every row dated up to t0 produces the same selected
\* symbols, ranks and turnover statistics, and the same exclusion reasons.
C25_NoLookAhead ==
    /\ SelectionFrozen
    /\ (pc = "universe_returned" /\ t0 # <<>>) =>
           \A other \in SameUpToFreeze :
               ExclusionsFrom(candidate_symbols, other) = universe_out.detailed_exclusions

\* C25, the part that holds: selected symbols, ranks and turnover statistics.
C25_SelectionFrozen == SelectionFrozen

\* C25: a symbol was excluded for having no row up to t0 although it has later rows,
\* and another symbol was selected.
C25_LaterRowsOnly ==
    /\ pc = "universe_returned"
    /\ \E k \in DOMAIN detailed_exclusions :
           detailed_exclusions[k].reason.wording = "No data up to t0"

\* select_universe has raised, whichever of the two it was.
UniverseRaised == pc \in {"universe_raised", "core_raised"}
UniverseReturned == pc \in {"universe_returned", "core_returned"}

\* C26: Empty universe is fatal.  With a configuration that is valid, select_universe
\* of src/universe.py and of src/core/universe.py raises, returning nothing, when no
\* candidate passes every check, and only then; when a candidate qualifies it
\* returns a list that is not empty.
C26_EmptyUniverseFatal ==
    ValidateConfig(uni_config) =>
        /\ UniverseRaised => (Qualifying = {} /\ universe_out.kind = "raised")
        /\ UniverseReturned =>
               (Qualifying # {} /\ universe_out.kind = "returned"
                /\ universe_out.selected_symbols # <<>>)

\* C26, the part that holds: select_universe of src/universe.py.
C26_EmptyUniverseFatalInSelector ==
    ValidateConfig(uni_config) =>
        /\ pc = "universe_raised" => (Qualifying = {} /\ universe_out.kind = "raised")
        /\ pc = "universe_returned" =>
               (Qualifying # {} /\ universe_out.kind = "returned"
                /\ universe_out.selected_symbols # <<>>)

\* C26: every candidate had rows up to t0 and each failed a check.
C26_AllFilteredOut ==
    /\ pc = "universe_raised"
    /\ Len(detailed_exclusions) = 3
    /\ \A k \in DOMAIN detailed_exclusions :
           detailed_exclusions[k].reason.wording \in {"Price", "Turnover", "Insufficient data"}

\* The reason recorded for a symbol that fails the given check first.
ReasonOfCheck(symbol, check) ==
    IF check = 1
    THEN {Reason("No data available", <<>>), Reason("Empty data", <<>>),
          Reason("No data up to t0", t0)}
    ELSE IF check = 2
    THEN {Reason("Price", <<LastClose(FrozenRows(symbol)), uni_config.min_price>>)}
    ELSE IF check = 3
    THEN {Reason("Insufficient data", <<FrozenStats(symbol).valid_days,
                                        MinDaysReq(uni_config.lookback_years)>>)}
    ELSE {Reason("Turnover", <<FormatNoDecimals(FrozenMedian(symbol)),
                               uni_config.min_turnover>>)}
\* The places of a symbol in a list of exclusions.
ExclusionsOf(symbol, exclusions) ==
    {k \in DOMAIN exclusions : exclusions[k].symbol = symbol}

\* C27: Exclusion audit trail.  In the metadata select_universe returns, every
\* candidate that failed a check is in detailed_exclusions exactly once, with the
\* reason of the first check it failed, the checks being, in order: no data up to
\* t0, last close below min_price, too few days with volume, median turnover below
\* min_turnover.  No symbol that passed every check, so no selected symbol, and no
\* symbol of exclude_symbols is in detailed_exclusions.
C27_ExclusionAuditTrail ==
    pc = "universe_returned" =>
        \A s \in UniverseSymbols :
            LET places == ExclusionsOf(s, universe_out.detailed_exclusions)
            IN  IF s \notin uni_config.exclude_symbols /\ FirstFailedCheck(s) # 0
                THEN /\ Cardinality(places) = 1
                     /\ \A k \in places :
                            universe_out.detailed_exclusions[k].reason
                                \in ReasonOfCheck(s, FirstFailedCheck(s))
                ELSE places = {}

\* C27 witness: the call returned a universe and excluded a symbol that has too few
\* days with volume and a median turnover below the minimum as well.
C27_FailsTwoChecks ==
    /\ pc = "universe_returned"
    /\ \E s \in UniverseSymbols :
           /\ s \notin uni_config.exclude_symbols
           /\ FirstFailedCheck(s) = 3
           /\ RLess(FrozenMedian(s), RInt(uni_config.min_turnover))
           /\ ExclusionsOf(s, universe_out.detailed_exclusions) # {}

-----------------------------------------------------------------------------
(* src/config.py (load_config), src/backtest.py (run_pipeline) and         *)
(* src/detectors.py (generate_signals)                                     *)
(*                                                                         *)
(* The configuration is loaded and validated, then the pipeline selects    *)
(* the universe, generates the signals with the first k_low of the grid    *)
(* and runs the simulation with the detector's max_hold.  raw_config holds *)
(* the sections the validation and these steps read; its ISO dates are     *)
(* written as the dates they denote.                                       *)

\* _validate_config(cfg): the message of the ValueError raised, "" when none is.
ValidateRawConfig(cfg) ==
    IF cfg = <<>> THEN "Configuration must be a YAML object."
    ELSE LET run_t0 == cfg[1].run.t0
             data_start == cfg[1].data.start_date
             data_end == cfg[1].data.end_date
             wf == cfg[1].walk_forward
             total_wf_years == wf.is_years + wf.oos_years
         IN  IF DateLeq(data_end, data_start)
             THEN "data.end_date must be after data.start_date"
             ELSE IF ~(~DateLeq(run_t0, data_start) /\ ~DateLeq(data_end, run_t0))
             THEN "run.t0 must be within the data start and end dates"
             ELSE IF total_wf_years <= 0
             THEN "Walk-forward years (is_years + oos_years) must be positive."
             ELSE ""

\* The check of generate_signals: k_low >= 0 raises ValueError.
GenerateSignalsRaises(k) == k >= 0

\* The configurations of the model.
ConfigDates == {[year |-> y, month |-> 1, day |-> 1] : y \in {2015, 2020, 2025}}
ConfigYears == {-1, 0, 1}
KLowRanges == {<<-2>>, <<-2, 0>>, <<0, -2>>, <<1>>}
MaxHoldChoices == {-1, 0, 1, 22}
RawConfigs ==
    {<<>>} \cup
    {<<[run |-> [t0 |-> r],
        data |-> [start_date |-> ds, end_date |-> de],
        walk_forward |-> [is_years |-> iy, oos_years |-> oy, holdout_years |-> hy],
        detector |-> [k_low_range |-> ks, max_hold |-> mh]]>> :
        r \in {[year |-> 2020, month |-> 1, day |-> 1]},
        ds \in ConfigDates, de \in ConfigDates,
        iy \in ConfigYears, oy \in ConfigYears, hy \in ConfigYears,
        ks \in KLowRanges, mh \in MaxHoldChoices}

InitConfig ==
    /\ pc = "load_config"
    /\ raw_config \in RawConfigs
    /\ loaded_config = <<>>
    /\ run_log = <<>>
    /\ BacktestIdle /\ SelectIdle /\ DayIdle /\ MetricsIdle /\ FeaturesIdle /\ FitIdle
    /\ DetectorIdle /\ WalkForwardIdle /\ UniverseIdle

\* load_config: the raw configuration is validated and turned into a Config, or
\* ValueError is raised.
LoadConfig ==
    /\ pc = "load_config"
    /\ IF ValidateRawConfig(raw_config) # ""
       THEN /\ pc' = "configuration_error"
            /\ loaded_config' = <<>>
       ELSE /\ pc' = "run_pipeline"
            /\ loaded_config' = raw_config
    /\ UNCHANGED <<raw_config, run_log>>
    /\ UNCHANGED <<backtestVars, selectVars, dayVars, metricsVars, featureVars, fitVars,
                   detectorVars, walkForwardVars, universeVars>>

\* run_pipeline, step 1: the universe is selected; an empty one is a PipelineError.
PipelineSelectUniverse ==
    /\ pc = "run_pipeline"
    /\ \E universe_empty \in BOOLEAN :
           /\ run_log' = Append(run_log, [step |-> "select_universe",
                                          empty |-> universe_empty])
           /\ pc' = IF universe_empty THEN "pipeline_error" ELSE "generate_signals"
    /\ UNCHANGED <<raw_config, loaded_config>>
    /\ UNCHANGED <<backtestVars, selectVars, dayVars, metricsVars, featureVars, fitVars,
                   detectorVars, walkForwardVars, universeVars>>

\* _run_vbt_backtest: generate_signals is called with the first k_low of the grid.
PipelineGenerateSignals ==
    /\ pc = "generate_signals"
    /\ LET k == loaded_config[1].detector.k_low_range[1]
       IN  IF GenerateSignalsRaises(k)
           THEN /\ pc' = "pipeline_error"
                /\ UNCHANGED run_log
           ELSE /\ pc' = "from_signals"
                /\ run_log' = Append(run_log, [step |-> "generate_signals", k_low |-> k])
    /\ UNCHANGED <<raw_config, loaded_config>>
    /\ UNCHANGED <<backtestVars, selectVars, dayVars, metricsVars, featureVars, fitVars,
                   detectorVars, walkForwardVars, universeVars>>

\* _run_vbt_backtest: the simulation is run with the detector's max_hold.
PipelineSimulate ==
    /\ pc = "from_signals"
    /\ run_log' = Append(run_log, [step |-> "from_signals",
                                   max_hold |-> loaded_config[1].detector.max_hold])
    /\ pc' = "pipeline_done"
    /\ UNCHANGED <<raw_config, loaded_config>>
    /\ UNCHANGED <<backtestVars, selectVars, dayVars, metricsVars, featureVars, fitVars,
                   detectorVars, walkForwardVars, universeVars>>

NextConfig ==
    \/ LoadConfig
    \/ PipelineSelectUniverse
    \/ PipelineGenerateSignals
    \/ PipelineSimulate

SpecConfig == InitConfig /\ [][NextConfig]_vars

\* The configuration has a non-negative k_low in the grid, a non-positive max_hold
\* or a non-positive walk-forward year count.
InvalidParameters ==
    /\ raw_config # <<>>
    /\ \/ \E k \in DOMAIN raw_config[1].detector.k_low_range :
              raw_config[1].detector.k_low_range[k] >= 0
       \/ raw_config[1].detector.max_hold <= 0
       \/ raw_config[1].walk_forward.is_years <= 0
       \/ raw_config[1].walk_forward.oos_years <= 0
       \/ raw_config[1].walk_forward.holdout_years <= 0
StepsTaken(step) == {k \in DOMAIN run_log : run_log[k].step = step}

\* C28: Invalid configuration halts before the run.  Once load_config has run on a
\* configuration with a non-negative k_low in the grid, a non-positive max_hold or a
\* non-positive walk-forward year count, the run has ended in a configuration error
\* and no step of the pipeline was taken; no simulation is run with max_hold <= 0
\* and no signal is generated with k_low >= 0.
C28_InvalidConfigHalts ==
    /\ (InvalidParameters /\ pc # "load_config") =>
           (pc = "configuration_error" /\ run_log = <<>>)
    /\ \A k \in StepsTaken("from_signals") : run_log[k].max_hold > 0
    /\ \A k \in StepsTaken("generate_signals") : run_log[k].k_low < 0

\* C28, the part that holds: generate_signals never produces signals with k_low >= 0,
\* and a configuration whose dates or whose is_years + oos_years fail the checks of
\* _validate_config ends in a configuration error before any step.
C28_SignalsOnlyBelowZero ==
    /\ \A k \in StepsTaken("generate_signals") : run_log[k].k_low < 0
    /\ (pc # "load_config" /\ ValidateRawConfig(raw_config) # "") =>
           (pc = "configuration_error" /\ run_log = <<>>)

\* C28: the simulation has been run with a max_hold of zero.
C28_SimulatedWithZeroHold ==
    /\ pc = "pipeline_done"
    /\ \E k \in StepsTaken("from_signals") : run_log[k].max_hold = 0

====
